---------------------------- MODULE Spec2Model ----------------------------
(*
  Model of the floristik-faunistik quiz.

  src/app.js               the iNaturalist project quiz (the main program)
  src/unnamed/part_000     lines   1..628  the vocabulary-only quiz
                           lines 630..1219 the project quiz whose genus level
                                           takes its distractors from external
                                           vocabulary files

  Strings that the code splits or tests for emptiness are sequences of words:
  "Apis mellifera" is <<"Apis", "mellifera">> and both null and "" are <<>>
  (the code only ever tests such values for truthiness).  Strings that are only
  compared are TLA+ strings, with "" for null/undefined.  Math.random() is a
  draw t / RandMod, t \in 0..RandMod-1, read from a tape of TapeLen draws that
  is chosen nondeterministically for every run of a generator.
*)
EXTENDS Integers, Sequences, FiniteSets, TLC

VARIABLES
    pc,               \* where initQuiz is: "fetch", "chunk", "done"
    pending,          \* the outstanding network requests: <<>> or <<[url, ids]>>
    filtered,         \* initQuiz's local `filtered` while enrichment runs
    chunkStart,       \* enrichWithTaxaData's loop variable i
    familyMap,        \* enrichWithTaxaData's familyMap
    broadGroupMap,    \* enrichWithTaxaData's broadGroupMap
    fileIndex,        \* part_000 loadVocab: the files already handled
    result,           \* part_000 loadVocab: its local `result`
    observations,     \* let observations
    quizQuestions,    \* let quizQuestions
    currentIndex,     \* let currentIndex
    score,            \* let score
    currentLevel,     \* let currentLevel
    statusEl,         \* the text of statusEl: <<>> or <<kind, details...>>
    progressEl,       \* the text of progressEl: <<>> or <<question number, total>>
    scoreEl,          \* the text of scoreEl: <<>> or <<score, total>>
    photoEl,          \* photoEl.src
    containerHidden,  \* questionContainerEl has class "hidden"
    nextHidden,       \* nextBtn has class "hidden"
    buttons,          \* answersEl: the data-group-label of every answer button
    buttonsDisabled,  \* the answer buttons are disabled
    correctLabel,     \* the correctLabel the click listeners closed over
    variant,          \* which program runs: "app", "ext" or "vocab"
    built,            \* a question generator has run
    builtLevel,       \* the level quizQuestions was built for
    externalDistractors, \* part_000: const externalDistractors
    vocabByGroup,        \* part_000: let vocabByGroup
    genusVocabByGroup,   \* part_000: let genusVocabByGroup
    familyVocabByGroup,  \* part_000: let familyVocabByGroup
    world             \* what the network will answer: the raw API records

loadVars == <<pc, pending, filtered, chunkStart, familyMap, broadGroupMap,
              fileIndex, result>>
domVars == <<statusEl, progressEl, scoreEl, photoEl, containerHidden, nextHidden,
             buttons, buttonsDisabled, correctLabel>>
quizVars == <<quizQuestions, currentIndex, score>>
vars == <<pc, pending, filtered, chunkStart, familyMap, broadGroupMap,
          fileIndex, result, observations, quizQuestions, currentIndex, score, currentLevel,
          statusEl, progressEl, scoreEl, photoEl, containerHidden, nextHidden,
          buttons, buttonsDisabled, correctLabel, variant, built, builtLevel, externalDistractors,
          vocabByGroup, genusVocabByGroup, familyVocabByGroup, world>>
vocabVars == <<externalDistractors, vocabByGroup, genusVocabByGroup,
               familyVocabByGroup>>

-----------------------------------------------------------------------------
(* CONFIG *)

QUESTIONS_COUNT == 10
OPTIONS_PER_QUESTION == 4
REQUIRE_RESEARCH_GRADE == TRUE
ALLOWED_LICENSES == <<"cc0", "cc-by", "cc-by-nc">>
GROUP_RANK_PRIORITY == <<"class", "phylum", "division">>
\* part_000, the project quiz with external vocabulary
GROUP_RANK_PRIORITY_EXT == <<"class", "phylum", "division", "kingdom">>
chunkSize == 30

Levels == {"species", "genus", "family"}

(* Bounds of the model. *)
RandMod == 4     \* Math.random() takes the values 0/RandMod .. (RandMod-1)/RandMod
TapeLen == 2     \* a generator run reads its draws from a tape of this length
MaskLen == 6     \* every sub-list of the first MaskLen catalogue records is an input
MaxObs == 12     \* every prefix of the catalogue up to this length is an input
MaxVocab == 5    \* a vocabulary file holds up to this many entries
MaxIterations == 256 \* a loop of a vocabulary builder is followed this far

NULL == <<>>
Truthy(s) == s # <<>>       \* a word-sequence string is neither null nor ""
TruthyStr(s) == s # ""      \* the same for a plain string
NoId == 0

Min(a, b) == IF a <= b THEN a ELSE b

SeqToSet(s) == {s[i] : i \in 1..Len(s)}

-----------------------------------------------------------------------------
(* HELPERS *)

Tapes == [1..TapeLen -> 0..(RandMod - 1)]

\* The k-th call of Math.random() of a run (k counts from 0).
Draw(tape, k) == tape[(k % Len(tape)) + 1]

Swap(arr, i, j) == [arr EXCEPT ![i] = arr[j], ![j] = arr[i]]

\* The loop of shuffleArray; i is the 1-based position, JS index i - 1, so
\* Math.floor(Math.random() * (jsIndex + 1)) is floor(draw * i).
RECURSIVE ShuffleFrom(_, _, _, _)
ShuffleFrom(arr, i, tape, k) ==
    IF i <= 1 THEN arr
    ELSE LET j == ((Draw(tape, k) * i) \div RandMod) + 1
         IN  ShuffleFrom(Swap(arr, i, j), i - 1, tape, k + 1)

shuffleArray(array, tape, k) == ShuffleFrom(array, Len(array), tape, k)

\* Math.random() calls made by shuffleArray on an array of length n.
ShuffleDraws(n) == IF n > 1 THEN n - 1 ELSE 0

pickRandomSubset(array, n, tape, k) ==
    IF Len(array) <= n THEN array
    ELSE SubSeq(shuffleArray(array, tape, k), 1, n)

\* Math.random() calls made by pickRandomSubset(array, n) for Len(array) = len.
PickDraws(len, n) == IF len <= n THEN 0 ELSE ShuffleDraws(len)

\* String.prototype.toLowerCase on the license codes of the model's world.
toLowerCase(code) ==
    CASE code = "CC0" -> "cc0"
      [] code = "CC-BY" -> "cc-by"
      [] code = "CC-BY-NC" -> "cc-by-nc"
      [] code = "CC-BY-SA" -> "cc-by-sa"
      [] OTHER -> code

licenseIsAllowed(code) ==
    IF ~TruthyStr(code) THEN FALSE
    ELSE toLowerCase(code) \in SeqToSet(ALLOWED_LICENSES)

\* A URL is the sequence of its pieces; replace("square.", "large.") changes
\* the first piece "square." only.
RECURSIVE ReplaceFirst(_, _, _)
ReplaceFirst(url, from, to) ==
    IF url = <<>> THEN <<>>
    ELSE IF Head(url) = from THEN <<to>> \o Tail(url)
    ELSE <<Head(url)>> \o ReplaceFirst(Tail(url), from, to)

buildPhotoUrl(photo) ==
    IF photo = <<>> \/ ~Truthy(photo[1].url) THEN NULL
    ELSE ReplaceFirst(photo[1].url, "square.", "large.")

\* A faulty variant: the family case falls back to the scientific name like the genus case
getGroupLabelForObs_FamilyFallback(obs, level) ==
    CASE level = "genus" ->
            IF Truthy(obs.genusName) THEN obs.genusName ELSE obs.scientificName
      [] level = "family" ->
            IF Truthy(obs.familyName) THEN obs.familyName ELSE obs.scientificName
      [] OTHER -> obs.scientificName

getGroupLabelForObs(obs, level) ==
    CASE level = "genus" ->
            IF Truthy(obs.genusName) THEN obs.genusName ELSE obs.scientificName
      [] level = "family" ->
            IF Truthy(obs.familyName) THEN obs.familyName ELSE NULL
      [] OTHER -> obs.scientificName

\* The label renderQuestion puts on a button and compares the answer with.
ButtonLabel(obs, level) ==
    IF Truthy(getGroupLabelForObs(obs, level))
    THEN getGroupLabelForObs(obs, level)
    ELSE obs.scientificName

-----------------------------------------------------------------------------
(* The world: what the iNaturalist API knows. *)

Anc(rank, name) == [rank |-> rank, name |-> <<name>>]

\* A taxon as /v1/taxa returns it.  hasAncestors is Array.isArray(t.ancestors).
Taxon(id, name, common, rank, hasAnc, anc) ==
    [id |-> id, name |-> name, preferred_common_name |-> common, rank |-> rank,
     hasAncestors |-> hasAnc, ancestors |-> anc]

Insect(fam) == <<Anc("kingdom", "Animalia"), Anc("phylum", "Arthropoda"),
                 Anc("class", "Insecta"), Anc("family", fam)>>
\* the class after the family: the order of ancestors must not matter
Bird(fam) == <<Anc("family", fam), Anc("phylum", "Chordata"),
               Anc("class", "Aves")>>

TaxaDb ==
    <<Taxon(1, <<"Apis", "mellifera">>, "honungsbi", "species", TRUE, Insect("Apidae")),
      Taxon(2, <<"Bombus", "terrestris">>, "", "species", TRUE, Insect("Apidae")),
      Taxon(3, <<"Parus", "major">>, "talgoxe", "species", TRUE, Bird("Paridae")),
      Taxon(4, <<"Bombus", "lucorum">>, "", "species", TRUE, Insect("Apidae")),
      Taxon(5, <<"Vespa", "crabro">>, "", "species", TRUE, Insect("Vespidae")),
      Taxon(6, <<"Cladonia", "rangiferina">>, "", "species", FALSE, <<>>),
      Taxon(7, <<"Pieris", "rapae">>, "", "species", TRUE, Insect("Pieridae")),
      Taxon(8, <<"Pica", "pica">>, "skata", "species", TRUE, Bird("Corvidae")),
      Taxon(9, <<"Corvus", "corax">>, "", "species", TRUE, Bird("Corvidae")),
      Taxon(10, <<"Sphagnum", "palustre">>, "", "species", TRUE,
            <<Anc("kingdom", "Plantae"), Anc("phylum", "Bryophyta"),
              Anc("family", "Sphagnaceae")>>),
      Taxon(11, <<"Amanita", "muscaria">>, "", "species", TRUE,
            <<Anc("kingdom", "Fungi"), Anc("family", "Amanitaceae")>>),
      Taxon(12, <<"Turdus", "merula">>, "", "species", TRUE, Bird("Turdidae")),
      Taxon(13, <<"Formicidae">>, "myror", "family", TRUE,
            <<Anc("kingdom", "Animalia"), Anc("class", "Insecta")>>),
      Taxon(14, <<"Lasius", "niger">>, "", "species", TRUE, Insect("Formicidae"))>>

\* The taxa of a large project: the id decides the rank and the ancestors, so
\* that every shape of a /v1/taxa result occurs, the ancestors in any order.
LargeTaxon(id) ==
    LET k == id % 10
        sp == <<"Species", ToString(id)>>
        fam == <<"Familia", ToString(id)>>
    IN  CASE k = 0 -> Taxon(id, sp, "", "species", TRUE, Insect("Apidae"))
          [] k = 1 -> Taxon(id, sp, "", "species", TRUE, Bird("Corvidae"))
          [] k = 2 -> Taxon(id, sp, "", "species", TRUE,
                            <<Anc("phylum", "Bryophyta"), Anc("division", "Bryophytina")>>)
          [] k = 3 -> Taxon(id, sp, "", "species", TRUE,
                            <<Anc("division", "Bryophytina"), Anc("family", "Sphagnaceae"),
                              Anc("phylum", "Bryophyta")>>)
          [] k = 4 -> Taxon(id, sp, "", "species", TRUE,
                            <<Anc("family", "Cladoniaceae"), Anc("division", "Ascomycota")>>)
          [] k = 5 -> Taxon(id, sp, "", "species", TRUE, <<Anc("kingdom", "Fungi")>>)
          [] k = 6 -> Taxon(id, sp, "", "species", FALSE, <<>>)
          [] k = 7 -> Taxon(id, fam, "", "family", TRUE,
                            <<Anc("class", "Insecta"), Anc("kingdom", "Animalia")>>)
          [] k = 8 -> Taxon(id, sp, "", "species", TRUE, <<>>)
          [] OTHER -> Taxon(id, fam, "", "family", FALSE, <<>>)

\* The taxon the API has for an id.
TaxonOf(id) == IF id <= Len(TaxaDb) THEN TaxaDb[id] ELSE LargeTaxon(id)

Photo(lic, n) == [license_code |-> lic, url |-> <<n, "square.", "jpg">>]

\* A raw record as /v1/observations returns it; taxon and photos are sequences
\* (<<>> for a missing taxon / photos).
Raw(id, taxonId, lic, photos, grade) ==
    [id |-> id,
     taxon |-> IF taxonId = NoId THEN <<>>
               ELSE <<[id |-> taxonId, name |-> TaxonOf(taxonId).name,
                       preferred_common_name |->
                           TaxonOf(taxonId).preferred_common_name]>>,
     photos |-> photos, quality_grade |-> grade, license_code |-> lic,
     user |-> "anna"]

Good(id, taxonId) == Raw(id, taxonId, "cc-by", <<Photo("cc-by", "p")>>, "research")

\* The records the project may hold, an observation id being 100 + position.
RawCatalogue ==
    <<Good(101, 1), Good(102, 2), Good(103, 3), Good(104, 4), Good(105, 5),
      Good(106, 6),
      Raw(107, 1, "", <<Photo("", "q"), Photo("CC0", "p")>>, "research"),
      Good(108, 7), Good(109, 8), Good(110, 9), Good(111, 10), Good(112, 11),
      Good(113, 12), Good(114, 13), Good(115, 14)>>

\* Records of every kind that filterAndTransform tells apart.
LicenceMix ==
    <<Good(201, 1),
      Raw(202, 2, "cc-by-nd", <<Photo("cc-by", "p")>>, "research"),
      Raw(203, 3, "", <<Photo("cc-by", "p")>>, "research"),
      Raw(204, 4, "CC-BY-NC", <<Photo("", "q"), Photo("CC0", "p")>>, "research"),
      Raw(205, 5, "cc-by", <<>>, "research"),
      Raw(206, 7, "cc-by", <<Photo("", "p"), Photo("CC-BY-SA", "q")>>, "research"),
      Raw(207, 8, "cc0", <<Photo("cc0", "p")>>, "needs_id"),
      Raw(208, NoId, "cc-by", <<Photo("cc-by", "p")>>, "research"),
      Raw(209, 10, "cc-by", <<[license_code |-> "cc-by", url |-> <<>>],
                             Photo("cc-by", "p")>>, "research"),
      Good(210, 9)>>

-----------------------------------------------------------------------------
(* FETCH & PREP DATA *)

\* Array.prototype.find, hits being the positions whose element satisfies the
\* callback: <<>> (undefined) or <<the first such element>>.
Find(arr, hits) ==
    IF hits = {} THEN <<>>
    ELSE <<arr[CHOOSE i \in hits : \A j \in hits : i <= j]>>

\* scientificName.split(" ")[0] || scientificName
GenusOf(scientificName) ==
    IF Head(scientificName) # "" THEN <<Head(scientificName)>> ELSE scientificName

\* A faulty variant: photos[0] is taken, whatever its license.
TransformOne_AnyPhoto(o) ==
    LET photo == Find(o.photos, 1..Len(o.photos))
        photoUrl == buildPhotoUrl(photo)
    IN  IF o.taxon = <<>> THEN <<>>
        ELSE IF Len(o.photos) = 0 THEN <<>>
        ELSE IF REQUIRE_RESEARCH_GRADE /\ o.quality_grade # "research" THEN <<>>
        ELSE IF TruthyStr(o.license_code) /\ ~licenseIsAllowed(o.license_code) THEN <<>>
        ELSE IF photo = <<>> THEN <<>>
        ELSE IF ~Truthy(photoUrl) THEN <<>>
        ELSE IF ~Truthy(o.taxon[1].name) THEN <<>>
        ELSE <<[obsId |-> o.id,
                taxonId |-> o.taxon[1].id,
                photoUrl |-> photoUrl,
                scientificName |-> o.taxon[1].name,
                swedishName |-> o.taxon[1].preferred_common_name,
                genusName |-> GenusOf(o.taxon[1].name),
                familyName |-> NULL,
                broadGroup |-> NULL,
                observer |-> IF TruthyStr(o.user) THEN o.user ELSE "unknown",
                licenseCode |-> IF TruthyStr(photo[1].license_code)
                                THEN photo[1].license_code ELSE o.license_code,
                obsUrl |-> <<"https://www.inaturalist.org/observations/", o.id>>]>>

\* One iteration of filterAndTransform's loop: <<>> when the record is skipped
\* (continue), else <<the observation pushed>>.
TransformOne(o) ==
    LET photo == Find(o.photos, {i \in 1..Len(o.photos) :
                                     licenseIsAllowed(o.photos[i].license_code)})
        photoUrl == buildPhotoUrl(photo)
    IN  IF o.taxon = <<>> THEN <<>>
        ELSE IF Len(o.photos) = 0 THEN <<>>
        ELSE IF REQUIRE_RESEARCH_GRADE /\ o.quality_grade # "research" THEN <<>>
        ELSE IF TruthyStr(o.license_code) /\ ~licenseIsAllowed(o.license_code) THEN <<>>
        ELSE IF photo = <<>> THEN <<>>
        ELSE IF ~Truthy(photoUrl) THEN <<>>
        ELSE IF ~Truthy(o.taxon[1].name) THEN <<>>
        ELSE <<[obsId |-> o.id,
                taxonId |-> o.taxon[1].id,
                photoUrl |-> photoUrl,
                scientificName |-> o.taxon[1].name,
                swedishName |-> o.taxon[1].preferred_common_name,
                genusName |-> GenusOf(o.taxon[1].name),
                familyName |-> NULL,
                broadGroup |-> NULL,
                observer |-> IF TruthyStr(o.user) THEN o.user ELSE "unknown",
                licenseCode |-> IF TruthyStr(photo[1].license_code)
                                THEN photo[1].license_code ELSE o.license_code,
                obsUrl |-> <<"https://www.inaturalist.org/observations/", o.id>>]>>

RECURSIVE filterAndTransform(_)
filterAndTransform(rawObs) ==
    IF rawObs = <<>> THEN <<>>
    ELSE TransformOne(Head(rawObs)) \o filterAndTransform(Tail(rawObs))

\* [...new Set(arr)]: the distinct elements in order of first occurrence.
RECURSIVE Distinct(_, _)
Distinct(arr, seen) ==
    IF arr = <<>> THEN <<>>
    ELSE IF Head(arr) \in seen THEN Distinct(Tail(arr), seen)
    ELSE <<Head(arr)>> \o Distinct(Tail(arr), seen \cup {Head(arr)})

\* enrichWithTaxaData's ids
TaxonIds(obsList) ==
    Distinct(SelectSeq([i \in 1..Len(obsList) |-> obsList[i].taxonId],
                       LAMBDA id : id # NoId), {})

\* A faulty variant: ids.slice(i, i + chunkSize + 1)
Chunk_OneMore(ids, i) == SubSeq(ids, i + 1, Min(i + chunkSize + 1, Len(ids)))

\* ids.slice(i, i + chunkSize), i being the 0-based loop variable
Chunk(ids, i) == SubSeq(ids, i + 1, Min(i + chunkSize, Len(ids)))

\* famName of one taxon of a /v1/taxa response
FamilyOfTaxon(t) ==
    IF t.rank = "family" THEN t.name
    ELSE IF t.hasAncestors
    THEN LET fam == Find(t.ancestors, {i \in 1..Len(t.ancestors) :
                                         t.ancestors[i].rank = "family"})
         IN  IF fam # <<>> THEN fam[1].name ELSE NULL
    ELSE NULL

\* for (const rank of GROUP_RANK_PRIORITY): the first rank, from position r on,
\* that some ancestor has
\* A faulty variant: the first ancestor, in the order of t.ancestors, whose
\* rank is in the list.
BroadFrom_AncestorOrder(t, r, priority) ==
    LET anc == Find(t.ancestors,
                    {i \in 1..Len(t.ancestors) :
                         \E n \in r..Len(priority) : t.ancestors[i].rank = priority[n]})
    IN  IF anc # <<>> THEN anc[1].name ELSE NULL

RECURSIVE BroadFrom(_, _, _)
BroadFrom(t, r, priority) ==
    IF r > Len(priority) THEN NULL
    ELSE LET anc == Find(t.ancestors, {i \in 1..Len(t.ancestors) :
                                         t.ancestors[i].rank = priority[r]})
         IN  IF anc # <<>> THEN anc[1].name ELSE BroadFrom(t, r + 1, priority)

BroadGroupOfTaxon(t, priority) ==
    IF t.hasAncestors THEN BroadFrom(t, 1, priority) ELSE NULL

MapSet(m, k, v) == (k :> v) @@ m
MapGet(m, k) == IF k \in DOMAIN m THEN m[k] ELSE NULL

\* for (const t of taxa): familyMap after the taxa of one response
RECURSIVE FamilyMapAfter(_, _)
FamilyMapAfter(m, taxa) ==
    IF taxa = <<>> THEN m
    ELSE LET t == Head(taxa)
             famName == FamilyOfTaxon(t)
         IN  FamilyMapAfter(IF Truthy(famName) THEN MapSet(m, t.id, famName) ELSE m,
                            Tail(taxa))

RECURSIVE BroadGroupMapAfter(_, _, _)
BroadGroupMapAfter(m, taxa, priority) ==
    IF taxa = <<>> THEN m
    ELSE LET t == Head(taxa)
             broadGroup == BroadGroupOfTaxon(t, priority)
         IN  BroadGroupMapAfter(
                 IF Truthy(broadGroup) THEN MapSet(m, t.id, broadGroup) ELSE m,
                 Tail(taxa), priority)

\* obsList.forEach(...) at the end of enrichWithTaxaData
ApplyMaps(obsList, fm, bm) ==
    [i \in 1..Len(obsList) |->
        [obsList[i] EXCEPT !.familyName = MapGet(fm, obsList[i].taxonId),
                           !.broadGroup = MapGet(bm, obsList[i].taxonId)]]

\* A request that names no taxa: the observations or a vocabulary file
Request(url) == [url |-> url, ids |-> <<>>]

\* The request of /v1/taxa/<chunk.join(",")>
TaxaRequest(chunk) == [url |-> "taxa", ids |-> chunk]

\* The /v1/taxa request of the chunk at i is answered with the taxa; else the
\* response is not ok or the fetch throws.
TaxaUp(w, i) == i \notin w.down

\* data.results of /v1/taxa/<chunk>: the taxa the API has for the ids asked
TaxaResponse(chunk) ==
    [i \in 1..Len(chunk) |-> TaxonOf(chunk[i])]

-----------------------------------------------------------------------------
(* BUILD QUIZ QUESTIONS (src/app.js) *)

\* groupsMap after the observations obsList[i..]: a Map keeps insertion order,
\* so the groups are a sequence ordered by the first occurrence of the label.
\* A faulty variant: groupsMap.set on every observation, so the last one represents
RECURSIVE GroupsFrom_LastWins(_, _, _, _)
GroupsFrom_LastWins(obsList, i, level, groups) ==
    IF i > Len(obsList) THEN groups
    ELSE LET obs == obsList[i]
             label == getGroupLabelForObs(obs, level)
             grp == [label |-> label, obs |-> obs, broadGroup |-> obs.broadGroup]
         IN  IF ~Truthy(label) THEN GroupsFrom_LastWins(obsList, i + 1, level, groups)
             ELSE IF \E n \in 1..Len(groups) : groups[n].label = label
             THEN GroupsFrom_LastWins(obsList, i + 1, level,
                      [n \in 1..Len(groups) |->
                          IF groups[n].label = label THEN grp ELSE groups[n]])
             ELSE GroupsFrom_LastWins(obsList, i + 1, level, Append(groups, grp))

RECURSIVE GroupsFrom(_, _, _, _)
GroupsFrom(obsList, i, level, groups) ==
    IF i > Len(obsList) THEN groups
    ELSE LET obs == obsList[i]
             label == getGroupLabelForObs(obs, level)
         IN  IF ~Truthy(label) THEN GroupsFrom(obsList, i + 1, level, groups)
             ELSE IF \E n \in 1..Len(groups) : groups[n].label = label
             THEN GroupsFrom(obsList, i + 1, level, groups)
             ELSE GroupsFrom(obsList, i + 1, level,
                      Append(groups, [label |-> label, obs |-> obs,
                                      broadGroup |-> obs.broadGroup]))

\* Array.from(groupsMap.values())
Groups(obsList, level) == GroupsFrom(obsList, 1, level, <<>>)

\* A faulty variant: one question too few
nQuestions_OneLess(groups) == Min(QUESTIONS_COUNT, Len(groups)) - 1

nQuestions(groups) == Min(QUESTIONS_COUNT, Len(groups))

\* Candidate distractors: same broadGroup
SameBroadCandidates(groups, g) ==
    SelectSeq(groups, LAMBDA x : x.label # g.label
                                 /\ Truthy(g.broadGroup)
                                 /\ x.broadGroup = g.broadGroup)

\* A faulty variant: the broadGroup restriction is never applied
candidateGroups_IgnoreBroad(groups, g) ==
    SelectSeq(groups, LAMBDA x : x.label # g.label)

\* A faulty variant: no fallback
candidateGroups_NoFallback(groups, g) == SameBroadCandidates(groups, g)

\* Fallback: if too few, ignore broadGroup restriction
candidateGroups(groups, g) ==
    IF Len(SameBroadCandidates(groups, g)) < OPTIONS_PER_QUESTION - 1
    THEN SelectSeq(groups, LAMBDA x : x.label # g.label)
    ELSE SameBroadCandidates(groups, g)

\* The body of `for (const g of chosenGroups)`: the question built for g when k
\* draws have been made.
QuestionFor(groups, g, tape, k) ==
    LET cands == candidateGroups(groups, g)
        distractorGroups == pickRandomSubset(cands, OPTIONS_PER_QUESTION - 1, tape, k)
        k1 == k + PickDraws(Len(cands), OPTIONS_PER_QUESTION - 1)
        shuffled == shuffleArray(<<g>> \o distractorGroups, tape, k1)
    IN  [correct |-> g.obs,
         options |-> [j \in 1..Len(shuffled) |-> shuffled[j].obs]]

\* Draws made by the body of the loop for g.
QuestionDraws(groups, g) ==
    LET n == Len(candidateGroups(groups, g))
    IN  PickDraws(n, OPTIONS_PER_QUESTION - 1)
        + ShuffleDraws(1 + Min(n, OPTIONS_PER_QUESTION - 1))

RECURSIVE QuestionsFrom(_, _, _, _, _)
QuestionsFrom(groups, chosenGroups, i, tape, k) ==
    IF i > Len(chosenGroups) THEN <<>>
    ELSE <<QuestionFor(groups, chosenGroups[i], tape, k)>>
         \o QuestionsFrom(groups, chosenGroups, i + 1, tape,
                          k + QuestionDraws(groups, chosenGroups[i]))

buildQuizQuestions(obsList, level, tape) ==
    LET groups == Groups(obsList, level)
        chosenGroups == pickRandomSubset(groups, nQuestions(groups), tape, 0)
    IN  IF Len(groups) = 0 THEN <<>>
        ELSE QuestionsFrom(groups, chosenGroups, 1, tape,
                           PickDraws(Len(groups), nQuestions(groups)))

-----------------------------------------------------------------------------
(* BUILD QUIZ QUESTIONS (part_000 630..1219: genus uses external vocabulary) *)

DidacticKeys == {"insects", "plants", "mosses", "lichens", "mammals", "birds",
                 "fungi", "spiders"}

mapBroadGroupToDidacticGroup(broadGroupName) ==
    IF ~Truthy(broadGroupName) THEN ""
    ELSE IF broadGroupName = <<"Insecta">> THEN "insects"
    ELSE IF broadGroupName = <<"Aves">> THEN "birds"
    ELSE IF broadGroupName = <<"Mammalia">> THEN "mammals"
    ELSE IF broadGroupName = <<"Araneae">> THEN "spiders"
    ELSE IF broadGroupName = <<"Plantae">> \/ broadGroupName = <<"Tracheophyta">>
    THEN "plants"
    ELSE IF \/ broadGroupName = <<"Bryophyta">>
            \/ broadGroupName = <<"Marchantiophyta">>
            \/ broadGroupName = <<"Anthocerotophyta">>
    THEN "mosses"
    ELSE IF broadGroupName = <<"Fungi">> THEN "fungi"
    ELSE IF broadGroupName = <<"Lecanoromycetes">> THEN "lichens"
    ELSE ""

\* filterAndTransform of this variant: the same record plus didacticGroup: null
extFilterAndTransform(rawObs) ==
    LET base == filterAndTransform(rawObs)
    IN  [i \in 1..Len(base) |-> base[i] @@ [didacticGroup |-> ""]]

\* obsList.forEach(...) at the end of this variant's enrichWithTaxaData
extApplyMaps(obsList, fm, bm) ==
    [i \in 1..Len(obsList) |->
        [obsList[i] EXCEPT
            !.familyName = MapGet(fm, obsList[i].taxonId),
            !.broadGroup = MapGet(bm, obsList[i].taxonId),
            !.didacticGroup =
                mapBroadGroupToDidacticGroup(MapGet(bm, obsList[i].taxonId))]]

\* this variant's enrichWithTaxaData with every chunk request answered
extEnriched(obsList) ==
    LET taxa == TaxaResponse(TaxonIds(obsList))
    IN  extApplyMaps(obsList, FamilyMapAfter(<<>>, taxa),
                     BroadGroupMapAfter(<<>>, taxa, GROUP_RANK_PRIORITY_EXT))

RECURSIVE extGroupsFrom(_, _, _, _)
extGroupsFrom(obsList, i, level, groups) ==
    IF i > Len(obsList) THEN groups
    ELSE LET obs == obsList[i]
             label == getGroupLabelForObs(obs, level)
         IN  IF ~Truthy(label) THEN extGroupsFrom(obsList, i + 1, level, groups)
             ELSE IF \E n \in 1..Len(groups) : groups[n].label = label
             THEN extGroupsFrom(obsList, i + 1, level, groups)
             ELSE extGroupsFrom(obsList, i + 1, level,
                      Append(groups, [label |-> label, obs |-> obs,
                                      broadGroup |-> obs.broadGroup,
                                      didacticGroup |-> obs.didacticGroup]))

\* The observation-shaped option made of a vocabulary entry.
VocabDistractor(v, correctBroad, didacticGroup) ==
    [obsId |-> NoId, taxonId |-> NoId, photoUrl |-> NULL,
     scientificName |-> v.scientificName, swedishName |-> v.swedishName,
     genusName |-> v.scientificName, familyName |-> NULL,
     broadGroup |-> correctBroad, didacticGroup |-> didacticGroup,
     observer |-> "external", licenseCode |-> "", obsUrl |-> NULL]

\* A faulty variant: the vocabulary list as it is, the correct genus included.
extVocabClean_All(g, level, ext) ==
    IF ~TruthyStr(g.didacticGroup) THEN <<>>
    ELSE ext[g.didacticGroup]

\* GENUS MODE: the vocabulary entries that may be distractors of g
extVocabClean(g, level, ext) ==
    IF ~TruthyStr(g.didacticGroup) THEN <<>>
    ELSE SelectSeq(ext[g.didacticGroup],
                   LAMBDA v : v.scientificName # getGroupLabelForObs(g.obs, level))

\* SPECIES / FAMILY MODE: project-based same-broadGroup distractors
projectCandidates(groups, g) ==
    SelectSeq(groups, LAMBDA x : x.label # g.label /\ x.broadGroup = g.broadGroup)

\* The loop body reaches `continue` before a question is pushed.
extSkips(groups, g, level, ext) ==
    \/ ~Truthy(g.broadGroup)
    \/ /\ level = "genus"
       /\ \/ ~TruthyStr(g.didacticGroup)
          \/ Len(ext[g.didacticGroup]) = 0
          \/ ~Truthy(getGroupLabelForObs(g.obs, level))
          \/ Len(extVocabClean(g, level, ext)) < OPTIONS_PER_QUESTION - 1
    \/ /\ level # "genus"
       /\ Len(projectCandidates(groups, g)) < OPTIONS_PER_QUESTION - 1

\* The pool the distractors of g are picked from, as observations.
extPool(groups, g, level, ext) ==
    IF level = "genus"
    THEN LET clean == extVocabClean(g, level, ext)
         IN  [j \in 1..Len(clean) |->
                 VocabDistractor(clean[j], g.broadGroup, g.didacticGroup)]
    ELSE LET cands == projectCandidates(groups, g)
         IN  [j \in 1..Len(cands) |-> cands[j].obs]

extQuestionFor(groups, g, level, ext, tape, k) ==
    LET pool == extPool(groups, g, level, ext)
        distractors == pickRandomSubset(pool, OPTIONS_PER_QUESTION - 1, tape, k)
        k1 == k + PickDraws(Len(pool), OPTIONS_PER_QUESTION - 1)
    IN  [correct |-> g.obs,
         options |-> shuffleArray(<<g.obs>> \o distractors, tape, k1)]

extQuestionDraws(groups, g, level, ext) ==
    PickDraws(Len(extPool(groups, g, level, ext)), OPTIONS_PER_QUESTION - 1)
    + ShuffleDraws(OPTIONS_PER_QUESTION)

\* for (const g of shuffleArray(groups)), from the i-th group of the order on
RECURSIVE extQuestionsFrom(_, _, _, _, _, _, _, _)
extQuestionsFrom(groups, order, i, questions, level, ext, tape, k) ==
    IF i > Len(order) \/ Len(questions) >= QUESTIONS_COUNT THEN questions
    ELSE IF extSkips(groups, order[i], level, ext)
    THEN extQuestionsFrom(groups, order, i + 1, questions, level, ext, tape, k)
    ELSE extQuestionsFrom(groups, order, i + 1,
             Append(questions, extQuestionFor(groups, order[i], level, ext, tape, k)),
             level, ext, tape, k + extQuestionDraws(groups, order[i], level, ext))

extBuildQuizQuestions(obsList, level, ext, tape) ==
    LET groups == extGroupsFrom(obsList, 1, level, <<>>)
    IN  IF Len(groups) = 0 THEN <<>>
        ELSE extQuestionsFrom(groups, shuffleArray(groups, tape, 0), 1, <<>>,
                              level, ext, tape, ShuffleDraws(Len(groups)))

Genus(name, swe) == [scientificName |-> <<name>>, swedishName |-> swe]

\* externalDistractors when no vocabulary file could be loaded
NoExternal == [key \in DidacticKeys |-> <<>>]

\* externalDistractors after the insect and bird files were loaded
SomeExternal ==
    [key \in DidacticKeys |->
        CASE key = "insects" -> <<Genus("Bombus", "humlor"), Genus("Vespa", ""),
                                  Genus("Formica", ""), Genus("Lasius", "")>>
          [] key = "birds" -> <<Genus("Parus", ""), Genus("Corvus", ""),
                                Genus("Turdus", "trastar")>>
          [] OTHER -> <<>>]

-----------------------------------------------------------------------------
(* The vocabulary-only quiz (part_000 1..628).  Its names are never split, so
   they are plain strings; a text put together for display is the sequence of
   its pieces. *)

VOCAB_FILES == <<"insects", "plants", "mosses", "lichens", "mammals", "birds",
                 "fungi", "spiders">>
MAX_ATTEMPTS == 200

\* exampleObservation of a vocabulary entry: <<>> when the entry has none
Example(obsId, photoUrl) ==
    <<[obsId |-> obsId, photoUrl |-> photoUrl, observer |-> "", licenseCode |-> "cc-by",
       obsUrl |-> ""]>>

Species(taxonId, sci, swe, genus, fam, famSwe, ex) ==
    [taxonId |-> taxonId, scientificName |-> sci, swedishName |-> swe,
     genusName |-> genus, familyName |-> fam, familySwedishName |-> famSwe,
     exampleObservation |-> ex]

\* loadVocab's filter of one file's entries
HasExample(e) ==
    /\ e.exampleObservation # <<>>
    /\ TruthyStr(e.exampleObservation[1].photoUrl)
    /\ e.exampleObservation[1].obsId # NoId

\* vocabByGroup after loadVocab: one [key, list] per file, in the order of
\* VOCAB_FILES; a file that could not be loaded (ok = FALSE) gives [].
loadVocabResult(files) ==
    [n \in 1..Len(VOCAB_FILES) |->
        [key |-> VOCAB_FILES[n],
         list |-> IF files[n].ok THEN SelectSeq(files[n].data, HasExample)
                  ELSE <<>>]]

RECURSIVE GenusMapFrom(_, _, _)
GenusMapFrom(speciesList, i, genera) ==
    IF i > Len(speciesList) THEN genera
    ELSE LET sp == speciesList[i]
         IN  IF ~TruthyStr(sp.genusName)
                \/ \E n \in 1..Len(genera) : genera[n].genusName = sp.genusName
             THEN GenusMapFrom(speciesList, i + 1, genera)
             ELSE GenusMapFrom(speciesList, i + 1,
                      Append(genera, [genusName |-> sp.genusName,
                                      swedishName |-> sp.swedishName,
                                      representative |-> sp]))

buildGenusVocabFromSpecies(vocab) ==
    [n \in 1..Len(vocab) |->
        [key |-> vocab[n].key, list |-> GenusMapFrom(vocab[n].list, 1, <<>>)]]

RECURSIVE FamilyMapFrom(_, _, _)
FamilyMapFrom(speciesList, i, families) ==
    IF i > Len(speciesList) THEN families
    ELSE LET sp == speciesList[i]
         IN  IF ~TruthyStr(sp.familyName)
                \/ \E n \in 1..Len(families) : families[n].familyName = sp.familyName
             THEN FamilyMapFrom(speciesList, i + 1, families)
             ELSE FamilyMapFrom(speciesList, i + 1,
                      Append(families,
                          [familyName |-> sp.familyName,
                           swedishName |-> IF TruthyStr(sp.familySwedishName)
                                           THEN sp.familySwedishName
                                           ELSE sp.swedishName,
                           representative |-> sp,
                           useExampleSpeciesName |-> ~TruthyStr(sp.familySwedishName)]))

buildFamilyVocabFromSpecies(vocab) ==
    [n \in 1..Len(vocab) |->
        [key |-> vocab[n].key, list |-> FamilyMapFrom(vocab[n].list, 1, <<>>)]]

\* The key of an entry of a level's vocabulary: String(taxonId), genusName or
\* familyName.
VocabKey(e, level) ==
    CASE level = "species" -> ToString(e.taxonId)
      [] level = "genus" -> e.genusName
      [] level = "family" -> e.familyName

\* The species entry whose exampleObservation illustrates the entry.
VocabRep(e, level) == IF level = "species" THEN e ELSE e.representative

Text(str) == IF str = "" THEN <<>> ELSE <<str>>

VocabOption(e, level) ==
    CASE level = "species" ->
            [key |-> ToString(e.taxonId), labelSci |-> e.scientificName,
             labelSwe |-> Text(e.swedishName)]
      [] level = "genus" ->
            [key |-> e.genusName, labelSci |-> e.genusName, labelSwe |-> <<>>]
      [] level = "family" ->
            [key |-> e.familyName, labelSci |-> e.familyName,
             labelSwe |-> IF e.useExampleSpeciesName /\ TruthyStr(e.swedishName)
                          THEN <<"t.ex. ", e.swedishName>>
                          ELSE Text(e.swedishName)]

VocabCorrect(e, level, groupKey) ==
    LET ex == VocabRep(e, level).exampleObservation[1]
    IN  [answerKey |-> VocabKey(e, level),
         labelSci |-> VocabOption(e, level).labelSci,
         labelSwe |-> Text(e.swedishName),
         obsId |-> ex.obsId, photoUrl |-> ex.photoUrl,
         observer |-> IF TruthyStr(ex.observer) THEN ex.observer ELSE "okänd",
         licenseCode |-> ex.licenseCode,
         obsUrl |-> IF TruthyStr(ex.obsUrl) THEN ex.obsUrl ELSE "#",
         groupKey |-> groupKey]

\* Object.entries(...).filter(([, list]) => list && list.length > neededDistractors)
availableGroups(vocab) ==
    SelectSeq(vocab, LAMBDA grp : Len(grp.list) > OPTIONS_PER_QUESTION - 1)

\* Math.floor(Math.random() * n), as a 1-based position
RandomIndex(n, tape, k) == ((Draw(tape, k) * n) \div RandMod) + 1

\* A faulty variant: the pool is the whole list, the correct entry included.
VocabPool_WithCorrect(list, correctEntry, level) == list

VocabPool(list, correctEntry, level) ==
    SelectSeq(list, LAMBDA e : VocabKey(e, level) # VocabKey(correctEntry, level))

\* A faulty variant: the loop condition with `attempts <= MAX_ATTEMPTS`.
VocabContinue_OneMore(questions, attempts) ==
    Len(questions) < QUESTIONS_COUNT /\ attempts <= MAX_ATTEMPTS

\* The condition of the while loop of the three builders.
VocabContinue(questions, attempts) ==
    Len(questions) < QUESTIONS_COUNT /\ attempts < MAX_ATTEMPTS

\* One iteration of the while loop of the three builders, which differ in the
\* level only.  st holds the two variables of the loop and the number of
\* random draws made: `attempts` iterations were made, `questions` pushed.
VocabStep(avail, level, st, tape) ==
    LET k == st.k
        grp == avail[RandomIndex(Len(avail), tape, k)]
        list == grp.list
        correctEntry == list[RandomIndex(Len(list), tape, k + 1)]
        ex == VocabRep(correctEntry, level).exampleObservation
        pool == VocabPool(list, correctEntry, level)
        distractors == pickRandomSubset(pool, OPTIONS_PER_QUESTION - 1, tape, k + 2)
        k1 == k + 2 + PickDraws(Len(pool), OPTIONS_PER_QUESTION - 1)
        options == <<VocabOption(correctEntry, level)>>
                   \o [j \in 1..Len(distractors) |->
                          VocabOption(distractors[j], level)]
        continue(draws) == [st EXCEPT !.attempts = @ + 1, !.k = @ + draws]
    IN  IF Len(list) <= OPTIONS_PER_QUESTION - 1 THEN continue(1)
        ELSE IF ex = <<>> \/ ~TruthyStr(ex[1].photoUrl) THEN continue(2)
        ELSE IF Len(pool) < OPTIONS_PER_QUESTION - 1 THEN continue(2)
        ELSE [questions |-> Append(st.questions,
                                [correct |-> VocabCorrect(correctEntry, level, grp.key),
                                 options |-> shuffleArray(options, tape, k1)]),
              attempts |-> st.attempts + 1,
              k |-> k1 + ShuffleDraws(Len(options))]

\* The loop followed for up to n iterations from st, by halves.
RECURSIVE VocabIterate(_, _, _, _, _)
VocabIterate(avail, level, st, tape, n) ==
    IF n = 0 \/ ~VocabContinue(st.questions, st.attempts) THEN st
    ELSE IF n = 1 THEN VocabStep(avail, level, st, tape)
    ELSE VocabIterate(avail, level,
                      VocabIterate(avail, level, st, tape, n \div 2),
                      tape, n - (n \div 2))

\* The while loop: the two variables when it is left, and whether it was left
\* within MaxIterations iterations.
VocabLoop(avail, level, questions, attempts, tape, k) ==
    LET st == VocabIterate(avail, level,
                           [questions |-> questions, attempts |-> attempts, k |-> k],
                           tape, MaxIterations)
    IN  [questions |-> st.questions, attempts |-> st.attempts,
         returned |-> ~VocabContinue(st.questions, st.attempts)]

\* A run of a builder on the vocabulary of its level: the questions it returns
\* and the value of `attempts` at its return, 0 when the loop is not entered.
VocabRun(vocab, level, tape) ==
    IF Len(availableGroups(vocab)) = 0
    THEN [questions |-> <<>>, attempts |-> 0, returned |-> TRUE]
    ELSE VocabLoop(availableGroups(vocab), level, <<>>, 0, tape, 0)

buildSpeciesQuizQuestionsFromVocab(vocab, tape) ==
    VocabRun(vocab, "species", tape).questions

buildGenusQuizQuestionsFromVocab(genusVocab, tape) ==
    VocabRun(genusVocab, "genus", tape).questions

buildFamilyQuizQuestionsFromVocab(familyVocab, tape) ==
    VocabRun(familyVocab, "family", tape).questions

\* The awaited builder call of rebuildQuizForCurrentLevel.
vocabBuildFor(level, vocab, genusVocab, familyVocab, tape) ==
    CASE level = "species" -> buildSpeciesQuizQuestionsFromVocab(vocab, tape)
      [] level = "genus" -> buildGenusQuizQuestionsFromVocab(genusVocab, tape)
      [] level = "family" -> buildFamilyQuizQuestionsFromVocab(familyVocab, tape)
      [] OTHER -> <<>>

(* The vocabulary files of the model's world. *)

InsectFile ==
    <<Species(1, "Apis mellifera", "honungsbi", "Apis", "Apidae", "bin", Example(201, "a")),
      Species(2, "Bombus terrestris", "", "Bombus", "Apidae", "bin", Example(202, "b")),
      Species(5, "Vespa crabro", "", "Vespa", "Vespidae", "", Example(205, "c")),
      Species(7, "Pieris rapae", "", "Pieris", "Pieridae", "", Example(207, "d")),
      Species(4, "Bombus lucorum", "", "Bombus", "Apidae", "bin", Example(204, "e")),
      Species(14, "Lasius niger", "", "Lasius", "Formicidae", "", Example(214, "f")),
      Species(16, "Musca domestica", "", "Musca", "Muscidae", "", <<>>)>>

BirdFile ==
    <<Species(3, "Parus major", "talgoxe", "Parus", "Paridae", "", Example(203, "g")),
      Species(8, "Pica pica", "skata", "Pica", "Corvidae", "", Example(208, "h")),
      Species(9, "Corvus corax", "", "Corvus", "Corvidae", "", Example(209, "i")),
      Species(12, "Turdus merula", "", "Turdus", "Turdidae", "", Example(212, "j")),
      Species(17, "Sitta europaea", "", "Sitta", "Sittidae", "", Example(217, "k"))>>

\* What fetch(path) gives for each file: the first ni insect and nb bird
\* entries; the other files cannot be loaded.
VocabFiles(ni, nb) ==
    [n \in 1..Len(VOCAB_FILES) |->
        CASE VOCAB_FILES[n] = "insects" ->
                [ok |-> TRUE, data |-> SubSeq(InsectFile, 1, Min(ni, Len(InsectFile)))]
          [] VOCAB_FILES[n] = "birds" ->
                [ok |-> TRUE, data |-> SubSeq(BirdFile, 1, Min(nb, Len(BirdFile)))]
          [] OTHER -> [ok |-> FALSE, data |-> <<>>]]

VocabWorlds == {VocabFiles(ni, nb) : ni \in 0..MaxVocab, nb \in 0..MaxVocab}

-----------------------------------------------------------------------------
(* The question generators as functions of their input: every input list is
   what the load can produce from some project, at every level. *)

\* The records of the catalogue at the positions S, in catalogue order.
Pick(S) ==
    LET idx == SelectSeq([i \in 1..Len(RawCatalogue) |-> i], LAMBDA i : i \in S)
    IN  [j \in 1..Len(idx) |-> RawCatalogue[idx[j]]]

\* 5 species of Insecta and 3 of Aves
ExampleProject == Pick({1, 2, 4, 5, 8} \cup {3, 9, 10})

RawInputs ==
    {Pick(S) : S \in SUBSET (1..MaskLen)}
    \cup {Pick(1..n) : n \in 0..MaxObs}
    \cup {ExampleProject, RawCatalogue}

\* enrichWithTaxaData with every chunk request answered
Enriched(obsList) ==
    LET taxa == TaxaResponse(TaxonIds(obsList))
    IN  ApplyMaps(obsList, FamilyMapAfter(<<>>, taxa),
                  BroadGroupMapAfter(<<>>, taxa, GROUP_RANK_PRIORITY))

\* The values of the variables a specification does not use.
LoadIdle ==
    /\ pc = "done" /\ pending = <<>> /\ filtered = <<>> /\ chunkStart = 0
    /\ familyMap = <<>> /\ broadGroupMap = <<>>
    /\ fileIndex = 0 /\ result = <<>>
VocabIdle ==
    /\ externalDistractors = <<>> /\ vocabByGroup = <<>>
    /\ genusVocabByGroup = <<>> /\ familyVocabByGroup = <<>>
DomIdle ==
    /\ statusEl = <<>> /\ progressEl = <<>> /\ scoreEl = <<>> /\ photoEl = NULL
    /\ containerHidden = TRUE /\ nextHidden = TRUE
    /\ buttons = <<>> /\ buttonsDisabled = FALSE /\ correctLabel = NULL

BuildInit ==
    /\ LoadIdle /\ DomIdle
    /\ \/ /\ variant = "app"
          /\ world \in RawInputs
          /\ VocabIdle
          /\ observations \in {Enriched(filterAndTransform(world)),
                               filterAndTransform(world)}
       \/ /\ variant = "ext"
          /\ world \in RawInputs
          /\ vocabByGroup = <<>> /\ genusVocabByGroup = <<>>
          /\ familyVocabByGroup = <<>>
          /\ externalDistractors \in {NoExternal, SomeExternal}
          /\ observations \in {extEnriched(extFilterAndTransform(world)),
                               extFilterAndTransform(world)}
       \/ /\ variant = "vocab"
          /\ world \in VocabWorlds
          /\ externalDistractors = <<>>
          /\ vocabByGroup = loadVocabResult(world)
          /\ genusVocabByGroup = buildGenusVocabFromSpecies(vocabByGroup)
          /\ familyVocabByGroup = buildFamilyVocabFromSpecies(vocabByGroup)
          /\ observations = <<>>
    /\ currentLevel \in Levels
    /\ quizQuestions = <<>>
    /\ currentIndex = 0 /\ score = 0
    /\ built = FALSE /\ builtLevel = currentLevel

BuildApp ==
    /\ variant = "app" /\ ~built
    /\ \E tape \in Tapes :
           quizQuestions' = buildQuizQuestions(observations, currentLevel, tape)
    /\ built' = TRUE
    /\ builtLevel' = currentLevel
    /\ UNCHANGED <<loadVars, domVars, vocabVars, observations, currentIndex,
                   score, currentLevel, variant, world>>

BuildExt ==
    /\ variant = "ext" /\ ~built
    /\ \E tape \in Tapes :
           quizQuestions' = extBuildQuizQuestions(observations, currentLevel,
                                                  externalDistractors, tape)
    /\ built' = TRUE
    /\ builtLevel' = currentLevel
    /\ UNCHANGED <<loadVars, domVars, vocabVars, observations, currentIndex,
                   score, currentLevel, variant, world>>

BuildVocab ==
    /\ variant = "vocab" /\ ~built
    /\ \E tape \in Tapes :
           quizQuestions' = vocabBuildFor(currentLevel, vocabByGroup,
                                genusVocabByGroup, familyVocabByGroup, tape)
    /\ built' = TRUE
    /\ builtLevel' = currentLevel
    /\ UNCHANGED <<loadVars, domVars, vocabVars, observations, currentIndex,
                   score, currentLevel, variant, world>>

BuildNext == BuildApp \/ BuildExt \/ BuildVocab

SpecBuild == BuildInit /\ [][BuildNext]_vars

-----------------------------------------------------------------------------
(* The project quiz of src/app.js as a state machine: initQuiz with its awaited
   requests, and the handlers of the answer buttons, the Next button and the
   level selector. *)

MaxRaw == 4      \* the project holds up to this many records

\* The tapes of the generator runs of the quiz: one draw, read again and again.
QuizTapes == [1..1 -> 0..(RandMod - 1)]

\* The page as index.html delivers it: nothing is shown yet.
HtmlInit ==
    /\ progressEl = <<>> /\ scoreEl = <<>> /\ photoEl = NULL
    /\ containerHidden = TRUE /\ nextHidden = TRUE
    /\ buttons = <<>> /\ buttonsDisabled = FALSE /\ correctLabel = NULL

\* The state variables as the script declares them.
StateInit ==
    /\ observations = <<>> /\ quizQuestions = <<>>
    /\ currentIndex = 0 /\ score = 0 /\ currentLevel = "species"
    /\ VocabIdle
    /\ filtered = <<>> /\ chunkStart = 0
    /\ familyMap = <<>> /\ broadGroupMap = <<>>
    /\ fileIndex = 0 /\ result = <<>>
    /\ built = FALSE /\ builtLevel = "species"

\* src/app.js when the script has run: initQuiz waits for fetchObservations.
\* The world is [raw |-> the records of the project, down |-> the chunks (by
\* their start) whose taxa request fails].
AppInit ==
    /\ variant = "app"
    /\ world \in [raw : {Pick(1..n) : n \in 0..MaxRaw} \cup {LicenceMix},
                   down : SUBSET {0}]
    /\ StateInit /\ HtmlInit
    /\ statusEl = <<"loading">>
    /\ pc = "fetch" /\ pending = <<Request("observations")>>

renderFinished(questions, sc) ==
    /\ containerHidden' = TRUE
    /\ nextHidden' = TRUE
    /\ statusEl' = <<"finished", sc, Len(questions)>>
    /\ progressEl' = <<>>
    /\ UNCHANGED <<scoreEl, photoEl, buttons, buttonsDisabled, correctLabel>>

\* renderQuestion without its nextBtn.classList.add("hidden").
renderQuestion_NextStaysVisible(questions, index, sc, level) ==
    IF index >= Len(questions) THEN renderFinished(questions, sc)
    ELSE LET correct == questions[index + 1].correct
             options == questions[index + 1].options
         IN  /\ correctLabel' = ButtonLabel(correct, level)
             /\ statusEl' = <<>>
             /\ progressEl' = <<index + 1, Len(questions)>>
             /\ scoreEl' = <<sc, Len(questions)>>
             /\ photoEl' = correct.photoUrl
             /\ buttons' = [j \in 1..Len(options) |-> ButtonLabel(options[j], level)]
             /\ buttonsDisabled' = FALSE
             /\ UNCHANGED nextHidden
             /\ containerHidden' = FALSE

\* renderQuestion() when quizQuestions, currentIndex, score and currentLevel
\* have the values given.
renderQuestion(questions, index, sc, level) ==
    IF index >= Len(questions) THEN renderFinished(questions, sc)
    ELSE LET correct == questions[index + 1].correct
             options == questions[index + 1].options
         IN  /\ correctLabel' = ButtonLabel(correct, level)
             /\ statusEl' = <<>>
             /\ progressEl' = <<index + 1, Len(questions)>>
             /\ scoreEl' = <<sc, Len(questions)>>
             /\ photoEl' = correct.photoUrl
             /\ buttons' = [j \in 1..Len(options) |-> ButtonLabel(options[j], level)]
             /\ buttonsDisabled' = FALSE
             /\ nextHidden' = TRUE
             /\ containerHidden' = FALSE

\* An isCorrect that every answer satisfies.
isCorrect_Always(chosenLabel, label) == chosenLabel = chosenLabel

\* isCorrect of handleAnswerClick
isCorrect(chosenLabel, label) == chosenLabel = label

\* A faulty variant: handleAnswerClick leaves the answer buttons enabled.
handleAnswerClick_StaysEnabled(b) ==
    /\ variant = "app"
    /\ ~containerHidden /\ ~buttonsDisabled
    /\ b \in 1..Len(buttons)
    /\ score' = IF isCorrect(buttons[b], correctLabel) THEN score + 1 ELSE score
    /\ statusEl' = <<"correct", currentLevel,
                     ButtonLabel(quizQuestions[currentIndex + 1].correct, currentLevel)>>
    /\ nextHidden' = FALSE
    /\ scoreEl' = <<score', Len(quizQuestions)>>
    /\ UNCHANGED <<loadVars, vocabVars, observations, quizQuestions, currentIndex,
                   currentLevel, progressEl, photoEl, containerHidden, buttons,
                   buttonsDisabled, correctLabel, variant, built, builtLevel, world>>

\* A click on the b-th answer button; a hidden or disabled button gets no click.
handleAnswerClick(b) ==
    /\ variant = "app"
    /\ ~containerHidden /\ ~buttonsDisabled
    /\ b \in 1..Len(buttons)
    /\ buttonsDisabled' = TRUE
    /\ score' = IF isCorrect(buttons[b], correctLabel) THEN score + 1 ELSE score
    /\ statusEl' = <<"correct", currentLevel,
                     ButtonLabel(quizQuestions[currentIndex + 1].correct, currentLevel)>>
    /\ nextHidden' = FALSE
    /\ scoreEl' = <<score', Len(quizQuestions)>>
    /\ UNCHANGED <<loadVars, vocabVars, observations, quizQuestions, currentIndex,
                   currentLevel, progressEl, photoEl, containerHidden, buttons,
                   correctLabel, variant, built, builtLevel, world>>

\* A faulty variant: the click handler without its `currentIndex += 1`.
NextClick_SameIndex ==
    /\ variant = "app"
    /\ ~nextHidden
    /\ currentIndex' = currentIndex
    /\ renderQuestion(quizQuestions, currentIndex', score, currentLevel)
    /\ UNCHANGED <<loadVars, vocabVars, observations, quizQuestions, score,
                   currentLevel, variant, built, builtLevel, world>>

\* nextBtn click handler
NextClick ==
    /\ variant = "app"
    /\ ~nextHidden
    /\ currentIndex' = currentIndex + 1
    /\ renderQuestion(quizQuestions, currentIndex', score, currentLevel)
    /\ UNCHANGED <<loadVars, vocabVars, observations, quizQuestions, score,
                   currentLevel, variant, built, builtLevel, world>>

\* A faulty variant: rebuildQuizForCurrentLevel shows its message but leaves
\* the question container and the Next button as they are.
LevelChange_NoHide(level) ==
    /\ variant = "app"
    /\ level # currentLevel
    /\ currentLevel' = level
    /\ IF Len(observations) = 0
       THEN UNCHANGED <<quizVars, domVars, built, builtLevel>>
       ELSE /\ \E tape \in QuizTapes :
                  quizQuestions' = buildQuizQuestions(observations, level, tape)
            /\ currentIndex' = 0
            /\ score' = 0
            /\ built' = TRUE
            /\ builtLevel' = level
            /\ IF Len(quizQuestions') = 0
               THEN /\ statusEl' = <<"not enough groups at this level">>
                    /\ UNCHANGED <<progressEl, scoreEl, photoEl, buttons,
                                   buttonsDisabled, correctLabel, containerHidden,
                                   nextHidden>>
               ELSE renderQuestion(quizQuestions', 0, 0, level)
    /\ UNCHANGED <<loadVars, vocabVars, observations, variant, world>>

\* The change handler with a rebuildQuizForCurrentLevel that lacks its
\* `if (!observations.length) return`.
LevelChange_NoEmptyGuard(level) ==
    /\ variant = "app"
    /\ level # currentLevel
    /\ currentLevel' = level
    /\ \E tape \in QuizTapes :
           quizQuestions' = buildQuizQuestions(observations, level, tape)
    /\ currentIndex' = 0
    /\ score' = 0
    /\ built' = TRUE
    /\ builtLevel' = level
    /\ IF Len(quizQuestions') = 0
       THEN /\ statusEl' = <<"not enough groups at this level">>
            /\ containerHidden' = TRUE
            /\ nextHidden' = TRUE
            /\ UNCHANGED <<progressEl, scoreEl, photoEl, buttons,
                           buttonsDisabled, correctLabel>>
       ELSE renderQuestion(quizQuestions', 0, 0, level)
    /\ UNCHANGED <<loadVars, vocabVars, observations, variant, world>>

\* levelSelectEl change handler with rebuildQuizForCurrentLevel
LevelChange(level) ==
    /\ variant = "app"
    /\ level # currentLevel
    /\ currentLevel' = level
    /\ IF Len(observations) = 0
       THEN UNCHANGED <<quizVars, domVars, built, builtLevel>>
       ELSE /\ \E tape \in QuizTapes :
                  quizQuestions' = buildQuizQuestions(observations, level, tape)
            /\ currentIndex' = 0
            /\ score' = 0
            /\ built' = TRUE
            /\ builtLevel' = level
            /\ IF Len(quizQuestions') = 0
               THEN /\ statusEl' = <<"not enough groups at this level">>
                    /\ containerHidden' = TRUE
                    /\ nextHidden' = TRUE
                    /\ UNCHANGED <<progressEl, scoreEl, photoEl, buttons,
                                   buttonsDisabled, correctLabel>>
               ELSE renderQuestion(quizQuestions', 0, 0, level)
    /\ UNCHANGED <<loadVars, vocabVars, observations, variant, world>>

\* fetchObservations throws: the request fails, the response is not ok or its
\* body is no JSON; initQuiz's catch shows the error.
FetchFails ==
    /\ variant = "app" /\ pc = "fetch"
    /\ pc' = "done" /\ pending' = <<>>
    /\ statusEl' = <<"error loading data">>
    /\ UNCHANGED <<filtered, chunkStart, familyMap, broadGroupMap, fileIndex,
                   result, vocabVars,
                   observations, quizVars, currentLevel, progressEl, scoreEl,
                   photoEl, containerHidden, nextHidden, buttons, buttonsDisabled,
                   correctLabel, variant, built, builtLevel, world>>

\* A faulty variant: initQuiz builds the quiz for the level of the page load.
StartQuiz_InitialLevel(obsList) ==
    /\ observations' = obsList
    /\ \E tape \in QuizTapes :
           quizQuestions' = buildQuizQuestions(obsList, "species", tape)
    /\ currentIndex' = 0
    /\ score' = 0
    /\ built' = TRUE
    /\ builtLevel' = "species"
    /\ IF Len(quizQuestions') = 0
       THEN /\ statusEl' = <<"not enough taxa">>
            /\ UNCHANGED <<progressEl, scoreEl, photoEl, containerHidden, nextHidden,
                           buttons, buttonsDisabled, correctLabel>>
       ELSE renderQuestion(quizQuestions', 0, 0, "species")

\* initQuiz from `observations = filtered` on, obsList being the enriched list.
StartQuiz(obsList) ==
    /\ observations' = obsList
    /\ \E tape \in QuizTapes :
           quizQuestions' = buildQuizQuestions(obsList, currentLevel, tape)
    /\ currentIndex' = 0
    /\ score' = 0
    /\ built' = TRUE
    /\ builtLevel' = currentLevel
    /\ IF Len(quizQuestions') = 0
       THEN /\ statusEl' = <<"not enough taxa">>
            /\ UNCHANGED <<progressEl, scoreEl, photoEl, containerHidden, nextHidden,
                           buttons, buttonsDisabled, correctLabel>>
       ELSE renderQuestion(quizQuestions', 0, 0, currentLevel)

\* A faulty variant: enrichWithTaxaData(filtered) without await, so that the
\* quiz is built while the first taxa request is outstanding.
FetchReturns_NoAwait ==
    /\ variant = "app" /\ pc = "fetch"
    /\ LET list == filterAndTransform(world.raw)
       IN  IF Len(list) = 0
           THEN /\ pc' = "done" /\ pending' = <<>>
                /\ statusEl' = <<"no suitable observations">>
                /\ UNCHANGED <<filtered, observations, quizVars, progressEl, scoreEl,
                               photoEl, containerHidden, nextHidden, buttons,
                               buttonsDisabled, correctLabel, built, builtLevel>>
           ELSE IF Len(TaxonIds(list)) = 0
           THEN /\ pc' = "done" /\ pending' = <<>>
                /\ filtered' = <<>>
                /\ StartQuiz(list)
           ELSE /\ pc' = "chunk"
                /\ pending' = <<TaxaRequest(Chunk(TaxonIds(list), 0))>>
                /\ filtered' = list
                /\ StartQuiz(list)
    /\ UNCHANGED <<chunkStart, familyMap, broadGroupMap, fileIndex, result,
                   vocabVars, currentLevel, variant, world>>

\* fetchObservations returns data.results: filterAndTransform, then
\* enrichWithTaxaData up to its first awaited request.
FetchReturns ==
    /\ variant = "app" /\ pc = "fetch"
    /\ LET list == filterAndTransform(world.raw)
       IN  IF Len(list) = 0
           THEN /\ pc' = "done" /\ pending' = <<>>
                /\ statusEl' = <<"no suitable observations">>
                /\ UNCHANGED <<filtered, observations, quizVars, progressEl, scoreEl,
                               photoEl, containerHidden, nextHidden, buttons,
                               buttonsDisabled, correctLabel, built, builtLevel>>
           ELSE IF Len(TaxonIds(list)) = 0
           THEN /\ pc' = "done" /\ pending' = <<>>
                /\ filtered' = <<>>
                /\ StartQuiz(list)
           ELSE /\ pc' = "chunk"
                /\ pending' = <<TaxaRequest(Chunk(TaxonIds(list), 0))>>
                /\ filtered' = list
                /\ UNCHANGED <<observations, quizVars, domVars, built, builtLevel>>
    /\ UNCHANGED <<chunkStart, familyMap, broadGroupMap, fileIndex, result,
                   vocabVars, currentLevel, variant, world>>

\* A faulty variant: try/catch around the whole loop, so that the first failure
\* ends the enrichment.
ChunkEnds_AbortOnFailure(ok) ==
    /\ variant = "app" /\ pc = "chunk"
    /\ ok = TaxaUp(world, chunkStart)
    /\ LET ids == TaxonIds(filtered)
           taxa == IF ok THEN TaxaResponse(Chunk(ids, chunkStart)) ELSE <<>>
           fm == FamilyMapAfter(familyMap, taxa)
           bm == BroadGroupMapAfter(broadGroupMap, taxa, GROUP_RANK_PRIORITY)
       IN  /\ familyMap' = fm
           /\ broadGroupMap' = bm
           /\ chunkStart' = chunkStart + chunkSize
           /\ IF ok /\ chunkStart + chunkSize < Len(ids)
              THEN /\ pc' = "chunk"
                   /\ pending' = <<TaxaRequest(Chunk(ids, chunkStart + chunkSize))>>
                   /\ UNCHANGED <<filtered, observations, quizVars, domVars, built,
                                  builtLevel>>
              ELSE /\ pc' = "done" /\ pending' = <<>>
                   /\ filtered' = <<>>
                   /\ StartQuiz(ApplyMaps(filtered, fm, bm))
    /\ UNCHANGED <<fileIndex, result, vocabVars, currentLevel, variant, world>>

\* The awaited /v1/taxa request of the chunk at chunkStart ends: with ok it
\* returned the taxa, otherwise the response was not ok or an error was thrown
\* and caught.  Then the next chunk is requested or, after the last one, the
\* maps are applied and initQuiz goes on.
ChunkEnds(ok) ==
    /\ variant = "app" /\ pc = "chunk"
    /\ ok = TaxaUp(world, chunkStart)
    /\ LET ids == TaxonIds(filtered)
           taxa == IF ok THEN TaxaResponse(Chunk(ids, chunkStart)) ELSE <<>>
           fm == FamilyMapAfter(familyMap, taxa)
           bm == BroadGroupMapAfter(broadGroupMap, taxa, GROUP_RANK_PRIORITY)
       IN  /\ familyMap' = fm
           /\ broadGroupMap' = bm
           /\ chunkStart' = chunkStart + chunkSize
           /\ IF chunkStart + chunkSize < Len(ids)
              THEN /\ pc' = "chunk"
                   /\ pending' = <<TaxaRequest(Chunk(ids, chunkStart + chunkSize))>>
                   /\ UNCHANGED <<filtered, observations, quizVars, domVars, built,
                                  builtLevel>>
              ELSE /\ pc' = "done" /\ pending' = <<>>
                   /\ filtered' = <<>>
                   /\ StartQuiz(ApplyMaps(filtered, fm, bm))
    /\ UNCHANGED <<fileIndex, result, vocabVars, currentLevel, variant, world>>

-----------------------------------------------------------------------------
(* The vocabulary-only quiz (part_000 1..628) as a state machine. *)

\* The files of the quiz: no entry, as many insect entries as a question has
\* options, or MaxVocab of them.
QuizVocabWorlds == {VocabFiles(n, 0) : n \in {0, OPTIONS_PER_QUESTION, MaxVocab}}

\* When the script has run: initQuiz waits in loadVocab for the first file.
VocabInit ==
    /\ variant = "vocab"
    /\ world \in QuizVocabWorlds
    /\ StateInit /\ HtmlInit
    /\ statusEl = <<"loading vocabulary">>
    /\ pc = "vocab" /\ pending = <<Request(VOCAB_FILES[1])>>

vocabRenderQuestion(questions, index, sc) ==
    IF Len(questions) = 0
    THEN /\ statusEl' = <<"could not create questions">>
         /\ containerHidden' = TRUE
         /\ nextHidden' = TRUE
         /\ UNCHANGED <<progressEl, scoreEl, photoEl, buttons, buttonsDisabled,
                        correctLabel>>
    ELSE IF index >= Len(questions) THEN renderFinished(questions, sc)
    ELSE LET correct == questions[index + 1].correct
             options == questions[index + 1].options
         IN  /\ correctLabel' = correct.answerKey
             /\ statusEl' = <<>>
             /\ progressEl' = <<index + 1, Len(questions)>>
             /\ scoreEl' = <<sc, Len(questions)>>
             /\ photoEl' = correct.photoUrl
             /\ buttons' = [j \in 1..Len(options) |-> options[j].key]
             /\ buttonsDisabled' = FALSE
             /\ nextHidden' = TRUE
             /\ containerHidden' = FALSE

\* rebuildQuizForCurrentLevel of this quiz, for the level and vocabularies given
vocabRebuild(level, vocab, genusVocab, familyVocab) ==
    /\ \E tape \in QuizTapes :
           quizQuestions' = vocabBuildFor(level, vocab, genusVocab, familyVocab, tape)
    /\ currentIndex' = 0
    /\ score' = 0
    /\ built' = TRUE
    /\ builtLevel' = level
    /\ IF Len(quizQuestions') = 0
       THEN /\ statusEl' = <<"could not create questions">>
            /\ containerHidden' = TRUE
            /\ nextHidden' = TRUE
            /\ UNCHANGED <<progressEl, scoreEl, photoEl, buttons, buttonsDisabled,
                           correctLabel>>
       ELSE vocabRenderQuestion(quizQuestions', 0, 0)

\* The awaited fetch of the file at fileIndex ends (with this file's entries
\* or a failure, as the world has it).  After the last file loadVocab sets
\* vocabByGroup and initQuiz derives the genus and family vocabularies and
\* builds the quiz.
VocabFileEnds ==
    /\ variant = "vocab" /\ pc = "vocab"
    /\ LET n == fileIndex + 1
           entry == [key |-> VOCAB_FILES[n],
                     list |-> IF world[n].ok
                              THEN SelectSeq(world[n].data, HasExample) ELSE <<>>]
           res == Append(result, entry)
       IN  /\ fileIndex' = n
           /\ IF n < Len(VOCAB_FILES)
              THEN /\ result' = res
                   /\ pc' = "vocab" /\ pending' = <<Request(VOCAB_FILES[n + 1])>>
                   /\ UNCHANGED <<vocabByGroup, genusVocabByGroup, familyVocabByGroup,
                                  quizVars, domVars, built, builtLevel>>
              ELSE /\ result' = <<>>
                   /\ pc' = "done" /\ pending' = <<>>
                   /\ vocabByGroup' = res
                   /\ genusVocabByGroup' = buildGenusVocabFromSpecies(res)
                   /\ familyVocabByGroup' = buildFamilyVocabFromSpecies(res)
                   /\ vocabRebuild(currentLevel, res, genusVocabByGroup',
                                   familyVocabByGroup')
    /\ UNCHANGED <<filtered, chunkStart, familyMap, broadGroupMap,
                   externalDistractors, observations, currentLevel, variant, world>>

\* handleAnswerClick of this quiz: the keys are compared
vocabHandleAnswerClick(b) ==
    /\ variant = "vocab"
    /\ ~containerHidden /\ ~buttonsDisabled
    /\ b \in 1..Len(buttons)
    /\ buttonsDisabled' = TRUE
    /\ score' = IF isCorrect(buttons[b], correctLabel) THEN score + 1 ELSE score
    /\ statusEl' = <<"correct", currentLevel,
                     quizQuestions[currentIndex + 1].correct.labelSci>>
    /\ nextHidden' = FALSE
    /\ scoreEl' = <<score', Len(quizQuestions)>>
    /\ UNCHANGED <<loadVars, vocabVars, observations, quizQuestions, currentIndex,
                   currentLevel, progressEl, photoEl, containerHidden, buttons,
                   correctLabel, variant, built, builtLevel, world>>

vocabNextClick ==
    /\ variant = "vocab"
    /\ ~nextHidden
    /\ currentIndex' = currentIndex + 1
    /\ vocabRenderQuestion(quizQuestions, currentIndex', score)
    /\ UNCHANGED <<loadVars, vocabVars, observations, quizQuestions, score,
                   currentLevel, variant, built, builtLevel, world>>

\* levelSelectEl change handler of this quiz
vocabLevelChange(level) ==
    /\ variant = "vocab"
    /\ level # currentLevel
    /\ currentLevel' = level
    /\ vocabRebuild(level, vocabByGroup, genusVocabByGroup, familyVocabByGroup)
    /\ UNCHANGED <<loadVars, vocabVars, observations, variant, world>>

-----------------------------------------------------------------------------
(* The project quiz with external vocabulary (part_000 630..1219) as a state
   machine.  Its world is [raw |-> the records of the project, files |-> the
   genus lists the server has, an empty list standing for a file that cannot
   be loaded, down |-> the chunks whose taxa request fails]. *)

\* Object.entries(files) of loadExternalDistractors, in order
ExtFileKeys == <<"insects", "plants", "mosses", "lichens", "mammals", "birds",
                 "fungi", "spiders">>

\* Four species of Insecta: every one has three others of its broad group.
InsectProject == Pick({1, 2, 4, 5})

ExtWorlds ==
    [raw : {Pick(1..n) : n \in 0..MaxRaw} \cup {InsectProject},
     files : {NoExternal, SomeExternal},
     down : SUBSET {0}]

\* When the script has run: initQuiz waits in loadExternalDistractors.
ExtInit ==
    /\ variant = "ext"
    /\ world \in ExtWorlds
    /\ observations = <<>> /\ quizQuestions = <<>>
    /\ currentIndex = 0 /\ score = 0 /\ currentLevel = "species"
    /\ externalDistractors = NoExternal
    /\ vocabByGroup = <<>> /\ genusVocabByGroup = <<>> /\ familyVocabByGroup = <<>>
    /\ filtered = <<>> /\ chunkStart = 0
    /\ familyMap = <<>> /\ broadGroupMap = <<>>
    /\ fileIndex = 0 /\ result = <<>>
    /\ built = FALSE /\ builtLevel = "species"
    /\ HtmlInit
    /\ statusEl = <<"loading">>
    /\ pc = "distractors" /\ pending = <<Request(ExtFileKeys[1])>>

\* The awaited fetch of the vocabulary file at fileIndex ends; after the last
\* one initQuiz calls fetchObservations.
ExtFileEnds ==
    /\ variant = "ext" /\ pc = "distractors"
    /\ LET n == fileIndex + 1
           key == ExtFileKeys[n]
       IN  /\ fileIndex' = n
           /\ externalDistractors' =
                  IF Len(world.files[key]) > 0
                  THEN [externalDistractors EXCEPT ![key] = world.files[key]]
                  ELSE externalDistractors
           /\ IF n < Len(ExtFileKeys)
              THEN /\ pc' = "distractors" /\ pending' = <<Request(ExtFileKeys[n + 1])>>
              ELSE /\ pc' = "fetch" /\ pending' = <<Request("observations")>>
    /\ UNCHANGED <<filtered, chunkStart, familyMap, broadGroupMap, result,
                   vocabByGroup, genusVocabByGroup, familyVocabByGroup,
                   observations, quizVars, currentLevel, domVars, variant, built,
                   builtLevel, world>>

extRenderQuestion(questions, index, sc, level) ==
    renderQuestion(questions, index, sc, level)

\* handleAnswerClick of this quiz
extHandleAnswerClick(b) ==
    /\ variant = "ext"
    /\ ~containerHidden /\ ~buttonsDisabled
    /\ b \in 1..Len(buttons)
    /\ buttonsDisabled' = TRUE
    /\ score' = IF isCorrect(buttons[b], correctLabel) THEN score + 1 ELSE score
    /\ statusEl' = <<"correct", currentLevel,
                     ButtonLabel(quizQuestions[currentIndex + 1].correct, currentLevel)>>
    /\ nextHidden' = FALSE
    /\ scoreEl' = <<score', Len(quizQuestions)>>
    /\ UNCHANGED <<loadVars, vocabVars, observations, quizQuestions, currentIndex,
                   currentLevel, progressEl, photoEl, containerHidden, buttons,
                   correctLabel, variant, built, builtLevel, world>>

extNextClick ==
    /\ variant = "ext"
    /\ ~nextHidden
    /\ currentIndex' = currentIndex + 1
    /\ extRenderQuestion(quizQuestions, currentIndex', score, currentLevel)
    /\ UNCHANGED <<loadVars, vocabVars, observations, quizQuestions, score,
                   currentLevel, variant, built, builtLevel, world>>

\* A faulty variant: rebuildQuizForCurrentLevel without its `score = 0`.
extLevelChange_KeepsScore(level) ==
    /\ variant = "ext"
    /\ level # currentLevel
    /\ currentLevel' = level
    /\ IF Len(observations) = 0
       THEN UNCHANGED <<quizVars, domVars, built, builtLevel>>
       ELSE /\ \E tape \in QuizTapes :
                  quizQuestions' = extBuildQuizQuestions(observations, level,
                                                         externalDistractors, tape)
            /\ currentIndex' = 0
            /\ score' = score
            /\ built' = TRUE
            /\ builtLevel' = level
            /\ IF Len(quizQuestions') = 0
               THEN /\ statusEl' = <<"not enough groups at this level">>
                    /\ containerHidden' = TRUE
                    /\ nextHidden' = TRUE
                    /\ UNCHANGED <<progressEl, scoreEl, photoEl, buttons,
                                   buttonsDisabled, correctLabel>>
               ELSE extRenderQuestion(quizQuestions', 0, score, level)
    /\ UNCHANGED <<loadVars, vocabVars, observations, variant, world>>

\* levelSelectEl change handler with rebuildQuizForCurrentLevel of this quiz
extLevelChange(level) ==
    /\ variant = "ext"
    /\ level # currentLevel
    /\ currentLevel' = level
    /\ IF Len(observations) = 0
       THEN UNCHANGED <<quizVars, domVars, built, builtLevel>>
       ELSE /\ \E tape \in QuizTapes :
                  quizQuestions' = extBuildQuizQuestions(observations, level,
                                                         externalDistractors, tape)
            /\ currentIndex' = 0
            /\ score' = 0
            /\ built' = TRUE
            /\ builtLevel' = level
            /\ IF Len(quizQuestions') = 0
               THEN /\ statusEl' = <<"not enough groups at this level">>
                    /\ containerHidden' = TRUE
                    /\ nextHidden' = TRUE
                    /\ UNCHANGED <<progressEl, scoreEl, photoEl, buttons,
                                   buttonsDisabled, correctLabel>>
               ELSE extRenderQuestion(quizQuestions', 0, 0, level)
    /\ UNCHANGED <<loadVars, vocabVars, observations, variant, world>>

\* fetchObservations throws and initQuiz's catch shows the error.
extFetchFails ==
    /\ variant = "ext" /\ pc = "fetch"
    /\ pc' = "done" /\ pending' = <<>>
    /\ statusEl' = <<"error loading data">>
    /\ UNCHANGED <<filtered, chunkStart, familyMap, broadGroupMap, fileIndex,
                   result, vocabVars,
                   observations, quizVars, currentLevel, progressEl, scoreEl,
                   photoEl, containerHidden, nextHidden, buttons, buttonsDisabled,
                   correctLabel, variant, built, builtLevel, world>>

\* initQuiz of this quiz from `observations = filtered` on
extStartQuiz(obsList) ==
    /\ observations' = obsList
    /\ \E tape \in QuizTapes :
           quizQuestions' = extBuildQuizQuestions(obsList, currentLevel,
                                                  externalDistractors, tape)
    /\ currentIndex' = 0
    /\ score' = 0
    /\ built' = TRUE
    /\ builtLevel' = currentLevel
    /\ IF Len(quizQuestions') = 0
       THEN /\ statusEl' = <<"not enough taxa">>
            /\ UNCHANGED <<progressEl, scoreEl, photoEl, containerHidden, nextHidden,
                           buttons, buttonsDisabled, correctLabel>>
       ELSE extRenderQuestion(quizQuestions', 0, 0, currentLevel)

\* fetchObservations returns: filterAndTransform, then enrichWithTaxaData up
\* to its first awaited request.
extFetchReturns ==
    /\ variant = "ext" /\ pc = "fetch"
    /\ LET list == extFilterAndTransform(world.raw)
       IN  IF Len(list) = 0
           THEN /\ pc' = "done" /\ pending' = <<>>
                /\ statusEl' = <<"no suitable observations">>
                /\ UNCHANGED <<filtered, observations, quizVars, progressEl, scoreEl,
                               photoEl, containerHidden, nextHidden, buttons,
                               buttonsDisabled, correctLabel, built, builtLevel>>
           ELSE IF Len(TaxonIds(list)) = 0
           THEN /\ pc' = "done" /\ pending' = <<>>
                /\ filtered' = <<>>
                /\ extStartQuiz(list)
           ELSE /\ pc' = "chunk"
                /\ pending' = <<TaxaRequest(Chunk(TaxonIds(list), 0))>>
                /\ filtered' = list
                /\ UNCHANGED <<observations, quizVars, domVars, built, builtLevel>>
    /\ UNCHANGED <<chunkStart, familyMap, broadGroupMap, fileIndex, result,
                   vocabVars, currentLevel, variant, world>>

\* The awaited /v1/taxa request of the chunk at chunkStart ends, with the taxa
\* (ok) or without.
extChunkEnds(ok) ==
    /\ variant = "ext" /\ pc = "chunk"
    /\ ok = TaxaUp(world, chunkStart)
    /\ LET ids == TaxonIds(filtered)
           taxa == IF ok THEN TaxaResponse(Chunk(ids, chunkStart)) ELSE <<>>
           fm == FamilyMapAfter(familyMap, taxa)
           bm == BroadGroupMapAfter(broadGroupMap, taxa, GROUP_RANK_PRIORITY_EXT)
       IN  /\ familyMap' = fm
           /\ broadGroupMap' = bm
           /\ chunkStart' = chunkStart + chunkSize
           /\ IF chunkStart + chunkSize < Len(ids)
              THEN /\ pc' = "chunk"
                   /\ pending' = <<TaxaRequest(Chunk(ids, chunkStart + chunkSize))>>
                   /\ UNCHANGED <<filtered, observations, quizVars, domVars, built,
                                  builtLevel>>
              ELSE /\ pc' = "done" /\ pending' = <<>>
                   /\ filtered' = <<>>
                   /\ extStartQuiz(extApplyMaps(filtered, fm, bm))
    /\ UNCHANGED <<fileIndex, result, vocabVars, currentLevel, variant, world>>

-----------------------------------------------------------------------------

Init == AppInit \/ VocabInit \/ ExtInit

Next ==
    \/ FetchFails
    \/ FetchReturns
    \/ \E ok \in BOOLEAN : ChunkEnds(ok)
    \/ \E b \in 1..OPTIONS_PER_QUESTION : handleAnswerClick(b)
    \/ NextClick
    \/ \E level \in Levels : LevelChange(level)
    \/ VocabFileEnds
    \/ \E b \in 1..OPTIONS_PER_QUESTION : vocabHandleAnswerClick(b)
    \/ vocabNextClick
    \/ \E level \in Levels : vocabLevelChange(level)
    \/ ExtFileEnds
    \/ extFetchFails
    \/ extFetchReturns
    \/ \E ok \in BOOLEAN : extChunkEnds(ok)
    \/ \E b \in 1..OPTIONS_PER_QUESTION : extHandleAnswerClick(b)
    \/ extNextClick
    \/ \E level \in Levels : extLevelChange(level)

Spec == Init /\ [][Next]_vars

-----------------------------------------------------------------------------
(* The load of src/app.js on projects of several chunks of taxon ids. *)

MaxProject == 77     \* a large project holds up to this many records

\* The taxon of the record at position i: every seventh record is of the taxon
\* of the record before it.
LargeTaxonId(i) == IF i % 7 = 3 THEN 20 + i - 1 ELSE 20 + i

\* The record at position i of a large project; every sixteenth has a taxon
\* without id.
LargeRecord(i) ==
    IF i % 16 = 5
    THEN [Good(1000 + i, 1) EXCEPT
              !.taxon = <<[id |-> NoId, name |-> <<"Incerta", ToString(i)>>,
                           preferred_common_name |-> ""]>>]
    ELSE Good(1000 + i, LargeTaxonId(i))

LargeProject(n) == [i \in 1..n |-> LargeRecord(i)]

\* A project none of whose taxa has an id.
NoIdProject == <<LargeRecord(5), LargeRecord(21)>>

\* The chunks a taxa request can be for, by their start.
ChunkStarts == {c * chunkSize : c \in 0..(MaxProject \div chunkSize)}

LoadInit ==
    /\ variant = "app"
    /\ world \in [raw : {LargeProject(n) : n \in 0..MaxProject} \cup {NoIdProject},
                   down : SUBSET ChunkStarts]
    /\ StateInit /\ HtmlInit
    /\ statusEl = <<"loading">>
    /\ pc = "fetch" /\ pending = <<Request("observations")>>

LoadNext ==
    \/ FetchFails
    \/ FetchReturns
    \/ \E ok \in BOOLEAN : ChunkEnds(ok)

SpecLoad == LoadInit /\ [][LoadNext]_vars

-----------------------------------------------------------------------------
(* A quiz of src/app.js played to its end by a user whose clicks are decided
   beforehand: the world is [raw, down, clicks |-> for each question the place
   of the answer button the user will click]. *)

MaxPlay == 4         \* the quiz played has up to this many questions

PlayInit ==
    /\ variant = "app"
    /\ world \in [raw : {Pick(1..n) : n \in 1..MaxPlay},
                   down : SUBSET {0},
                   clicks : [1..MaxPlay -> 1..OPTIONS_PER_QUESTION]]
    /\ StateInit /\ HtmlInit
    /\ statusEl = <<"loading">>
    /\ pc = "fetch" /\ pending = <<Request("observations")>>

\* The button the user clicks at the question on display, among the buttons
\* the question has.
ClickPlace(n, nButtons) == ((world.clicks[n] - 1) % nButtons) + 1

\* The user answers the question on display.
UserAnswers ==
    /\ ~containerHidden /\ ~buttonsDisabled
    /\ handleAnswerClick(ClickPlace(currentIndex + 1, Len(buttons)))

\* The user presses Next.
UserNext == NextClick

PlayNext ==
    \/ FetchReturns
    \/ \E ok \in BOOLEAN : ChunkEnds(ok)
    \/ UserAnswers
    \/ UserNext

\* The user keeps playing: an enabled answer button is clicked in the end, and
\* so is a visible Next button.  Nothing is assumed of the network.
SpecPlay ==
    /\ PlayInit /\ [][PlayNext]_vars
    /\ WF_vars(UserAnswers) /\ WF_vars(UserNext)

-----------------------------------------------------------------------------
(* The vocabulary builders on any content of the vocabulary files: a file may
   list a taxon more than once, which loadVocab does not look at. *)

MaxCopies == 4       \* a file lists its first taxon up to this many times

\* A file with c entries of Apis mellifera and then the n insects after it.
RepeatedFile(c, n) ==
    [j \in 1..c |-> InsectFile[1]] \o SubSeq(InsectFile, 2, n + 1)

\* What fetch(path) gives for each file: the insects with a repeated taxon,
\* the first nb birds; the other files cannot be loaded.
RepeatedFiles(c, n, nb) ==
    [f \in 1..Len(VOCAB_FILES) |->
        CASE VOCAB_FILES[f] = "insects" -> [ok |-> TRUE, data |-> RepeatedFile(c, n)]
          [] VOCAB_FILES[f] = "birds" -> [ok |-> TRUE, data |-> SubSeq(BirdFile, 1, nb)]
          [] OTHER -> [ok |-> FALSE, data |-> <<>>]]

RepeatedWorlds ==
    {RepeatedFiles(c, n, nb) : c \in 0..MaxCopies, n \in 0..3, nb \in {0, Len(BirdFile)}}

\* The vocabulary-only quiz after loadVocab and the two derivations.
VocabLoadedInit ==
    /\ LoadIdle /\ DomIdle
    /\ variant = "vocab"
    /\ world \in RepeatedWorlds
    /\ externalDistractors = <<>>
    /\ vocabByGroup = loadVocabResult(world)
    /\ genusVocabByGroup = buildGenusVocabFromSpecies(vocabByGroup)
    /\ familyVocabByGroup = buildFamilyVocabFromSpecies(vocabByGroup)
    /\ observations = <<>>
    /\ currentLevel \in Levels
    /\ quizQuestions = <<>>
    /\ currentIndex = 0 /\ score = 0
    /\ built = FALSE /\ builtLevel = currentLevel

SpecVocab == VocabLoadedInit /\ [][BuildVocab]_vars

-----------------------------------------------------------------------------
(* What the claims speak of, stated on the observation list itself. *)

\* The label of an observation at a level: scientific, genus or family name.
LevelLabel(obs, level) ==
    CASE level = "species" -> obs.scientificName
      [] level = "genus" -> obs.genusName
      [] level = "family" -> obs.familyName

Labelled(obsList, level) ==
    {i \in 1..Len(obsList) : LevelLabel(obsList[i], level) # NULL}

LabelSet(obsList, level) ==
    {LevelLabel(obsList[i], level) : i \in Labelled(obsList, level)}

\* The first observation of the list that carries the label.
FirstWith(obsList, level, label) ==
    LET at == {i \in 1..Len(obsList) : LevelLabel(obsList[i], level) = label}
    IN  obsList[CHOOSE i \in at : \A j \in at : i <= j]

BroadOfLabel(obsList, level, label) == FirstWith(obsList, level, label).broadGroup

Question(n) == quizQuestions[n]
CorrectLabelOf(q) == LevelLabel(q.correct, builtLevel)
OptionLabelsOf(q) == [j \in 1..Len(q.options) |-> LevelLabel(q.options[j], builtLevel)]
DistractorsOf(q) == SelectSeq(q.options, LAMBDA o : o # q.correct)
PairwiseDistinct(seq) ==
    \A i, j \in 1..Len(seq) : i # j => seq[i] # seq[j]
Occurrences(seq, x) == Cardinality({j \in 1..Len(seq) : seq[j] = x})

\* The labels, other than the correct one, whose group has the correct
\* group's (non-null) broad group.
SameBroadOthers(q) ==
    {l \in LabelSet(observations, builtLevel) \ {CorrectLabelOf(q)} :
        /\ q.correct.broadGroup # NULL
        /\ BroadOfLabel(observations, builtLevel, l) = q.correct.broadGroup}

AppBuilt == variant = "app" /\ built

\* C1: every question of buildQuizQuestions has exactly OPTIONS_PER_QUESTION
\* options, their labels at the active level are pairwise distinct and the
\* correct label is among them exactly once.
C1_FourDistinctOptions ==
    AppBuilt =>
        \A n \in 1..Len(quizQuestions) :
            /\ Len(Question(n).options) = OPTIONS_PER_QUESTION
            /\ PairwiseDistinct(OptionLabelsOf(Question(n)))
            /\ Occurrences(OptionLabelsOf(Question(n)), CorrectLabelOf(Question(n))) = 1

\* C2: when the correct group's broad group is non-null and at least 3 other
\* groups share it, the question has 3 distractors and each of them has the
\* correct group's broad group.
C2_SameBroadDistractors ==
    AppBuilt =>
        \A n \in 1..Len(quizQuestions) :
            Cardinality(SameBroadOthers(Question(n))) >= OPTIONS_PER_QUESTION - 1
            => /\ Len(DistractorsOf(Question(n))) = OPTIONS_PER_QUESTION - 1
               /\ \A d \in SeqToSet(DistractorsOf(Question(n))) :
                      d.broadGroup = Question(n).correct.broadGroup

\* 5 Insecta and 3 Aves species: an Insecta question with its 3 distractors
C2_Witness ==
    /\ AppBuilt /\ world = ExampleProject /\ builtLevel = "species"
    /\ \E n \in 1..Len(quizQuestions) :
          /\ Question(n).correct.broadGroup = <<"Insecta">>
          /\ Cardinality(SameBroadOthers(Question(n))) = 4
          /\ Len(DistractorsOf(Question(n))) = 3

\* C3: when fewer than OPTIONS_PER_QUESTION - 1 other groups share the correct
\* group's broad group (or it is null), the distractors are
\* min(3, groupCount - 1) groups taken from all the other groups, whatever
\* their broad group, and none carries the correct label.
C3_FallbackFromAll ==
    AppBuilt =>
        \A n \in 1..Len(quizQuestions) :
            Cardinality(SameBroadOthers(Question(n))) < OPTIONS_PER_QUESTION - 1
            => /\ Len(DistractorsOf(Question(n))) =
                      Min(OPTIONS_PER_QUESTION - 1,
                          Cardinality(LabelSet(observations, builtLevel)) - 1)
               /\ \A d \in SeqToSet(DistractorsOf(Question(n))) :
                      /\ LevelLabel(d, builtLevel) \in LabelSet(observations, builtLevel)
                      /\ LevelLabel(d, builtLevel) # CorrectLabelOf(Question(n))

\* a fallback question of a group with a broad group, one of whose distractors
\* has another broad group and one the same
C3_Witness ==
    /\ AppBuilt
    /\ \E n \in 1..Len(quizQuestions) :
          /\ Question(n).correct.broadGroup # NULL
          /\ Cardinality(SameBroadOthers(Question(n))) < OPTIONS_PER_QUESTION - 1
          /\ Len(DistractorsOf(Question(n))) = OPTIONS_PER_QUESTION - 1
          /\ \E d \in SeqToSet(DistractorsOf(Question(n))) :
                 d.broadGroup # Question(n).correct.broadGroup
          /\ \E d \in SeqToSet(DistractorsOf(Question(n))) :
                 d.broadGroup = Question(n).correct.broadGroup

\* C6: the groups are keyed by the level's label: labels are unique, each
\* group's representative is the first observation with the label, and an
\* observation without a label at the level is in no group and in no question.
C6_GroupingByLabel ==
    AppBuilt =>
        LET groups == Groups(observations, builtLevel)
        IN  /\ PairwiseDistinct([i \in 1..Len(groups) |-> groups[i].label])
            /\ {groups[i].label : i \in 1..Len(groups)}
                   = LabelSet(observations, builtLevel)
            /\ \A i \in 1..Len(groups) :
                   groups[i].obs = FirstWith(observations, builtLevel, groups[i].label)
            /\ \A n \in 1..Len(quizQuestions) :
                   \A o \in SeqToSet(Question(n).options) \cup {Question(n).correct} :
                       /\ LevelLabel(o, builtLevel) # NULL
                       /\ o = FirstWith(observations, builtLevel,
                                        LevelLabel(o, builtLevel))

\* a quiz from a list with an unlabelled observation and a repeated label
C6_Witness ==
    /\ AppBuilt /\ quizQuestions # <<>>
    /\ \E i \in 1..Len(observations) :
          LevelLabel(observations[i], builtLevel) = NULL
    /\ \E i, j \in Labelled(observations, builtLevel) :
          /\ i < j
          /\ LevelLabel(observations[i], builtLevel)
                = LevelLabel(observations[j], builtLevel)

\* C7: buildQuizQuestions returns no question when no observation has a label
\* at the level and at least one question when some observation has one.
C7_EmptyIffNoLabel ==
    AppBuilt =>
        (quizQuestions = <<>> <=> Labelled(observations, builtLevel) = {})

\* observations were loaded, none has a label at the level, no question
C7_Witness ==
    /\ AppBuilt /\ observations # <<>>
    /\ Labelled(observations, builtLevel) = {}
    /\ quizQuestions = <<>>

ExtBuilt == variant = "ext" /\ built

GroupCount == Cardinality(LabelSet(observations, builtLevel))

\* The labels whose group the external-vocabulary variant does not skip: the
\* group has a broad group and, at genus level, a didactic group whose
\* vocabulary has 3 entries of another name, at the other levels 3 other
\* groups of the same broad group.
EligibleLabels ==
    {l \in LabelSet(observations, builtLevel) :
        LET first == FirstWith(observations, builtLevel, l)
        IN  /\ first.broadGroup # NULL
            /\ IF builtLevel = "genus"
               THEN /\ first.didacticGroup # ""
                    /\ Cardinality({j \in 1..Len(externalDistractors[first.didacticGroup]) :
                           externalDistractors[first.didacticGroup][j].scientificName # l})
                         >= OPTIONS_PER_QUESTION - 1
               ELSE Cardinality({m \in LabelSet(observations, builtLevel) \ {l} :
                        BroadOfLabel(observations, builtLevel, m) = first.broadGroup})
                      >= OPTIONS_PER_QUESTION - 1}

VocabBuilt == variant = "vocab" /\ built

\* What identifies the correct answer of a question: the label at the level,
\* in the vocabulary quiz the answer key.
CorrectKeyOf(q) ==
    IF variant = "vocab" THEN q.correct.answerKey ELSE CorrectLabelOf(q)

\* C5: no two questions of one generated quiz have the same correct label,
\* whichever generator built it.
C5_NoRepeatedCorrect ==
    built => PairwiseDistinct([n \in 1..Len(quizQuestions) |->
                                  CorrectKeyOf(Question(n))])

-----------------------------------------------------------------------------
(* The running quiz. *)

\* A question is on display and waits for its answer.
Asking == ~containerHidden /\ ~buttonsDisabled
\* The question on display has been answered.
Answered == ~containerHidden /\ buttonsDisabled
\* The final score is on display.
Finished == statusEl # <<>> /\ statusEl[1] = "finished"

\* The label an option or a correct answer shows at the current level.
ShownLabel(o) ==
    IF variant = "vocab" THEN o.labelSci ELSE LevelLabel(o, currentLevel)

\* C8: a click on an answer adds exactly 1 to the score if the label of the
\* clicked option equals the label of the question's correct answer, and
\* leaves the score as it is otherwise.
C8_ScoreByLabel ==
    [][\A b \in 1..OPTIONS_PER_QUESTION :
          (handleAnswerClick(b) \/ vocabHandleAnswerClick(b)) =>
              LET q == Question(currentIndex + 1)
              IN  score' = IF ShownLabel(q.options[b]) = ShownLabel(q.correct)
                           THEN score + 1 ELSE score]_vars

\* The second question is answered and one of the two answers was right.
C8_Witness ==
    /\ variant = "app" /\ Answered
    /\ currentIndex = 1 /\ score = 1

\* What C9 says of every state.
C9_State ==
    /\ currentIndex <= Len(quizQuestions)
    /\ ~nextHidden => Answered
    /\ (Asking \/ Answered) =>
            /\ currentIndex < Len(quizQuestions)
            /\ progressEl = <<currentIndex + 1, Len(quizQuestions)>>
    /\ Finished <=> (Len(quizQuestions) > 0 /\ currentIndex = Len(quizQuestions))

\* What C9 says of every step: the index moves by one, from an answered
\* question of the same quiz, or a change of level starts a new quiz at 0.
C9_Step ==
    currentIndex' # currentIndex =>
        \/ /\ currentIndex' = currentIndex + 1
           /\ Answered /\ ~nextHidden
           /\ quizQuestions' = quizQuestions
        \/ /\ currentIndex' = 0
           /\ currentLevel' # currentLevel

\* C9: the index advances by exactly 1 and only from the answered state of the
\* question on display, Next is not available before an answer, the question
\* on display is the one at the index, the quiz is finished exactly when the
\* index has reached the number of questions, which it never exceeds.
C9_LinearProgression == []C9_State /\ [][C9_Step]_vars

\* A quiz of several questions has been answered to its end.
C9_Witness ==
    /\ variant = "app" /\ Finished
    /\ Len(quizQuestions) >= 2 /\ currentIndex = Len(quizQuestions)

ErrorShown == statusEl = <<"error loading data">>

\* C10: when fetchObservations fails the error status is shown, and from then
\* on it stays, no question is on display and the question list is empty,
\* whatever level is chosen later.
C10_FetchFailureStops ==
    /\ [][FetchFails => ErrorShown']_vars
    /\ [][ErrorShown => ErrorShown']_vars
    /\ [](ErrorShown =>
            /\ quizQuestions = <<>> /\ observations = <<>>
            /\ containerHidden /\ nextHidden /\ buttons = <<>>)

\* The fetch has failed and another level is selected.
C10_Witness == variant = "app" /\ ErrorShown /\ currentLevel = "family"

-----------------------------------------------------------------------------
(* Failing loads. *)

\* No observation has a family name or a broad group.
Degraded(obsList) ==
    \A i \in 1..Len(obsList) :
        obsList[i].familyName = NULL /\ obsList[i].broadGroup = NULL

\* The first question of a quiz is on display.
FirstQuestionShown ==
    /\ Asking /\ currentIndex = 0
    /\ Len(quizQuestions) >= 1
    /\ progressEl = <<1, Len(quizQuestions)>>

\* What C11 promises of a step that ends the enrichment at species level
\* with nothing resolved.
EnrichmentFailureProceeds ==
    (pc' = "done" /\ familyMap' = <<>> /\ broadGroupMap' = <<>>
     /\ currentLevel = "species")
        => /\ Len(observations') >= 1 /\ Degraded(observations')
           /\ FirstQuestionShown'

\* C11: when the taxa requests fail, initQuiz of either project quiz goes on
\* with observations without family name and broad group and displays the
\* first species-level question.
C11_EnrichmentFailureProceeds ==
    [][(ChunkEnds(FALSE) \/ extChunkEnds(FALSE)) => EnrichmentFailureProceeds]_vars

\* The same of src/app.js alone.
C11_AppProceeds ==
    [][ChunkEnds(FALSE) => EnrichmentFailureProceeds]_vars

-----------------------------------------------------------------------------
(* Enrichment in chunks *)

\* The taxon ids of a list of observations.
IdSet(obsList) == {obsList[i].taxonId : i \in 1..Len(obsList)} \ {NoId}

\* The position of an id among the distinct ids, in order of first occurrence.
IdRank(obsList, id) ==
    LET first == CHOOSE i \in 1..Len(obsList) :
                     /\ obsList[i].taxonId = id
                     /\ \A j \in 1..(i - 1) : obsList[j].taxonId # id
    IN  Cardinality(IdSet(SubSeq(obsList, 1, first)))

\* The start of the chunk an id is requested in.
ChunkStartOf(obsList, id) == ((IdRank(obsList, id) - 1) \div chunkSize) * chunkSize

\* The ancestor of a rank, whatever the order of the ancestors.
AncestorsOf(t) == {t.ancestors[i] : i \in 1..Len(t.ancestors)}
HasRank(t, r) == \E a \in AncestorsOf(t) : a.rank = r
NameAtRank(t, r) ==
    IF HasRank(t, r) THEN (CHOOSE a \in AncestorsOf(t) : a.rank = r).name ELSE NULL

BroadSpec(t) ==
    IF HasRank(t, "class") THEN NameAtRank(t, "class")
    ELSE IF HasRank(t, "phylum") THEN NameAtRank(t, "phylum")
    ELSE NameAtRank(t, "division")

FamilySpec(t) == IF t.rank = "family" THEN t.name ELSE NameAtRank(t, "family")

Loaded == variant = "app" /\ pc = "done" /\ built

\* After the load an observation of a failed chunk has neither family nor
\* broad group, an observation of an answered chunk has those of its taxon.
ChunkFailureIsolated ==
    Loaded =>
        \A i \in 1..Len(observations) :
            LET o == observations[i]
            IN  IF o.taxonId = NoId \/ ~TaxaUp(world, ChunkStartOf(observations, o.taxonId))
                THEN o.familyName = NULL /\ o.broadGroup = NULL
                ELSE /\ o.familyName = FamilySpec(TaxonOf(o.taxonId))
                     /\ o.broadGroup = BroadSpec(TaxonOf(o.taxonId))

\* A failed request is followed by the request of the next chunk, if any.
FailureContinues ==
    (variant = "app" /\ pc = "chunk" /\ ~TaxaUp(world, chunkStart)
        /\ Cardinality(IdSet(filtered)) > chunkStart + chunkSize)
      => /\ pc' = "chunk"
         /\ chunkStart' = chunkStart + chunkSize
         /\ Len(pending') = 1 /\ pending'[1].url = "taxa" /\ Len(pending'[1].ids) >= 1

\* C12: the failure of one taxa chunk request is isolated: the remaining
\* chunks are still requested, observations whose taxon id is in an answered
\* chunk are resolved, those whose id is in the failed chunk keep a null
\* family and a null broad group.
C12_ChunkFailureIsolated == []ChunkFailureIsolated /\ [][FailureContinues]_vars

\* Loaded with the second chunk failed and the third answered.
C12_Witness ==
    /\ Loaded /\ world.down = {chunkSize}
    /\ \E i, j \in 1..Len(observations) :
           /\ ChunkStartOf(observations, observations[i].taxonId) = chunkSize
           /\ observations[i].familyName = NULL /\ observations[i].broadGroup = NULL
           /\ FamilySpec(TaxonOf(observations[i].taxonId)) # NULL
           /\ ChunkStartOf(observations, observations[j].taxonId) = 2 * chunkSize
           /\ observations[j].familyName # NULL /\ observations[j].broadGroup # NULL

\* The maps after an answered request hold, for every id asked, the family
\* and the broad group of its taxon.
MapsBySpec ==
    (variant = "app" /\ pc = "chunk" /\ TaxaUp(world, chunkStart))
      => \A k \in 1..Len(pending[1].ids) :
             LET id == pending[1].ids[k]
             IN  /\ MapGet(familyMap', id) = FamilySpec(TaxonOf(id))
                 /\ MapGet(broadGroupMap', id) = BroadSpec(TaxonOf(id))

\* C13: the broad group of a taxon is the name of its ancestor of the first
\* rank of class, phylum, division that an ancestor has, whatever the order
\* of the ancestors, and null if there is none; its family is its own name
\* if its rank is family, else its family ancestor's name, else null.
C13_BroadGroupByPriority == [][MapsBySpec]_vars

\* Resolved: a class listed after the phylum, a phylum listed after the
\* division, a taxon of rank family, and a taxon with a kingdom only.
C13_Witness ==
    /\ Loaded
    /\ \E a, b, c, d \in DOMAIN broadGroupMap \cup DOMAIN familyMap \cup IdSet(observations) :
           /\ a % 10 = 1 /\ MapGet(broadGroupMap, a) = <<"Aves">>
           /\ b % 10 = 3 /\ MapGet(broadGroupMap, b) = <<"Bryophyta">>
           /\ c % 10 = 7 /\ MapGet(familyMap, c) = TaxonOf(c).name
           /\ d % 10 = 5 /\ ChunkStartOf(observations, d) \notin world.down
           /\ MapGet(broadGroupMap, d) = NULL /\ MapGet(familyMap, d) = NULL

-----------------------------------------------------------------------------
(* Licenses *)

\* The allowed license codes in the spellings of the world.
AllowedCodes == {"cc0", "CC0", "cc-by", "CC-BY", "cc-by-nc", "CC-BY-NC"}

AllowedPhotos(o) == {i \in 1..Len(o.photos) : o.photos[i].license_code \in AllowedCodes}

\* The record passes the other tests of filterAndTransform: a taxon with a
\* name, research grade, and a URL on its first photo of allowed license.
Usable(o) ==
    /\ o.taxon # <<>> /\ o.taxon[1].name # <<>>
    /\ o.quality_grade = "research"
    /\ \A i \in AllowedPhotos(o) :
           (\A j \in AllowedPhotos(o) : i <= j) => o.photos[i].url # <<>>

IdsOf(list, field) == [i \in 1..Len(list) |-> list[i][field]]

RecordOf(obs) == CHOOSE i \in 1..Len(world.raw) : world.raw[i].id = obs.obsId

\* The records kept are those of allowed license with an allowed photo.
C14_KeptOnlyIfLicensed ==
    Loaded =>
        \A n \in 1..Len(observations) :
            LET o == world.raw[RecordOf(observations[n])]
            IN  o.license_code \in AllowedCodes /\ AllowedPhotos(o) # {}

KeptSpec(o) ==
    /\ Usable(o)
    /\ o.license_code = "" \/ o.license_code \in AllowedCodes
    /\ AllowedPhotos(o) # {}

\* C14: filterAndTransform keeps a record only if its license is missing or
\* allowed and it has a photo of allowed license; a record without photo,
\* without a photo of allowed license or of a disallowed license is omitted,
\* and the records kept are in the order of the input.
C14_KeptByLicence ==
    Loaded =>
        IdsOf(observations, "obsId") = IdsOf(SelectSeq(world.raw, KeptSpec), "id")

\* All kinds of records in one input, one without license kept.
C14_Witness ==
    /\ Loaded /\ world.raw = LicenceMix
    /\ IdsOf(observations, "obsId") = <<201, 203, 204, 210>>

\* The entry has a photo URL and an allowed license.
LicensedPhoto(o) == Truthy(o.photoUrl) /\ o.licenseCode \in AllowedCodes

\* C15: every observation or vocabulary entry that takes part in a question
\* of a project quiz, as the correct answer or as an option, has a photo URL
\* with an allowed license.
C15_OnlyLicensedPhotos ==
    (AppBuilt \/ ExtBuilt) =>
        \A n \in 1..Len(quizQuestions) :
            /\ LicensedPhoto(Question(n).correct)
            /\ \A j \in 1..Len(Question(n).options) :
                   LicensedPhoto(Question(n).options[j])

\* The same of the correct answers, whose photo is the one displayed.
C15_CorrectLicensed ==
    (AppBuilt \/ ExtBuilt) =>
        \A n \in 1..Len(quizQuestions) : LicensedPhoto(Question(n).correct)

-----------------------------------------------------------------------------
(* The order of the requests *)

\* A step of the load awaits a request.
Awaiting == pc \in {"fetch", "chunk", "vocab", "distractors"}

\* C16: at any moment at most one request is outstanding, a step of the load
\* waits for exactly one, and the questions of a project quiz are generated
\* only when the observation fetch and every taxa request have ended.
C16_SequentialRequests ==
    /\ Len(pending) <= 1
    /\ Awaiting <=> Len(pending) = 1
    /\ (variant \in {"app", "ext"} /\ (built \/ observations # <<>>)) => ~Awaiting

\* A taxa request is outstanding, the level has been changed meanwhile, and no
\* question has been generated.
C16_Witness ==
    /\ variant \in {"app", "ext"} /\ pc = "chunk"
    /\ Len(pending) = 1 /\ pending[1].url = "taxa"
    /\ currentLevel # "species" /\ ~built /\ quizQuestions = <<>>

-----------------------------------------------------------------------------
(* Levels without questions *)

\* The level selector changes the level and the quiz is rebuilt: always in
\* the vocabulary quiz, with observations loaded in the project quizzes.
LevelSwitched ==
    /\ currentLevel' # currentLevel
    /\ variant = "vocab" \/ observations # <<>>

\* Questions can be built at the level: in src/app.js the level has a group,
\* in the other quizzes the generator returns a question.
CanBuildAt(level, questions) ==
    IF variant = "app" THEN LabelSet(observations, level) # {}
    ELSE questions # <<>>

\* The message that asks for another level, and no question.
TryAnotherLevel ==
    /\ statusEl \in {<<"not enough groups at this level">>,
                      <<"could not create questions">>}
    /\ quizQuestions = <<>>
    /\ containerHidden /\ nextHidden
    /\ ~ErrorShown

SwitchShowsMessageOrFirstQuestion ==
    LevelSwitched =>
        IF CanBuildAt(currentLevel', quizQuestions')
        THEN FirstQuestionShown' /\ score' = 0 /\ nextHidden' /\ ~ErrorShown'
        ELSE TryAnotherLevel'

\* C17: a switch to a level at which no question can be built shows the
\* message to try another level and no question, and not the load error; a
\* switch, also a later one, to a level that has groups displays question 1
\* of a fresh quiz.
C17_EmptyLevelRecoverable == [][SwitchShowsMessageOrFirstQuestion]_vars

\* The enrichment failed and the family level, which has no group, is chosen.
C17_Witness ==
    /\ Loaded /\ world.down = {0}
    /\ currentLevel = "family" /\ builtLevel = "family"
    /\ TryAnotherLevel

-----------------------------------------------------------------------------
(* The questions of the vocabulary builders *)

\* The vocabulary the builder of the level reads.
LevelVocab ==
    CASE builtLevel = "species" -> vocabByGroup
      [] builtLevel = "genus" -> genusVocabByGroup
      [] builtLevel = "family" -> familyVocabByGroup

\* The entries of a vocabulary group.
GroupList(groupKey) ==
    LET n == CHOOSE n \in 1..Len(LevelVocab) : LevelVocab[n].key = groupKey
    IN  LevelVocab[n].list

GroupKeys(groupKey) ==
    {VocabKey(GroupList(groupKey)[i], builtLevel) : i \in 1..Len(GroupList(groupKey))}

OptionKeysOf(q) == [j \in 1..Len(q.options) |-> q.options[j].key]

-----------------------------------------------------------------------------
(* The genus questions of the quiz with external vocabulary *)

ExtGenusBuilt == ExtBuilt /\ builtLevel = "genus"

\* The names of the external vocabulary of a didactic group.
ExternalNames(didacticGroup) ==
    {externalDistractors[didacticGroup][j].scientificName :
         j \in 1..Len(externalDistractors[didacticGroup])}

-----------------------------------------------------------------------------
(* The chunks of enrichWithTaxaData *)

CeilDiv(n, d) == (n + d - 1) \div d

\* The request outstanding is for the ids at the places chunkStart + 1 ..
\* chunkStart + 30 of the distinct ids, as far as there are ids; after the
\* load as many requests were made as the ids need.
ChunkOutstanding ==
    /\ (variant = "app" /\ pc = "chunk") =>
          LET ids == pending[1].ids
              n == Cardinality(IdSet(filtered))
          IN  /\ chunkStart % chunkSize = 0 /\ chunkStart < n
              /\ Len(ids) = Min(chunkSize, n - chunkStart)
              /\ \A k \in 1..Len(ids) :
                     /\ ids[k] \in IdSet(filtered)
                     /\ IdRank(filtered, ids[k]) = chunkStart + k
    /\ Loaded =>
          chunkStart = chunkSize * CeilDiv(Cardinality(IdSet(observations)), chunkSize)

\* The requests are counted from 0 and each one moves the count on by 30.
ChunkStep ==
    /\ (variant = "app" /\ pc = "fetch") => chunkStart = 0 /\ chunkStart' = 0
    /\ (variant = "app" /\ pc = "chunk") => chunkStart' = chunkStart + chunkSize

\* C20: enrichWithTaxaData requests the distinct non-null taxon ids in
\* consecutive chunks of at most 30: every id in exactly one request, none
\* twice, ceil(n / 30) requests for n ids, and none when there is no id.
C20_ConsecutiveChunks == []ChunkOutstanding /\ [][ChunkStep]_vars

\* Three requests were made for 61 ids.
C20_Witness ==
    /\ Loaded /\ Cardinality(IdSet(observations)) = 2 * chunkSize + 1
    /\ chunkStart = 3 * chunkSize

\* No request was made for observations without taxon id.
C20_NoIds ==
    (Loaded /\ observations # <<>> /\ IdSet(observations) = {})
        => chunkStart = 0 /\ familyMap = <<>>

-----------------------------------------------------------------------------
(* The score *)

\* The number of questions of the current quiz answered so far.
AnsweredSoFar == IF Answered THEN currentIndex + 1 ELSE currentIndex

ScoreBounded ==
    /\ 0 <= score /\ score <= AnsweredSoFar
    /\ AnsweredSoFar <= Len(quizQuestions)

\* The score grows by 1 and by a click on a question not yet answered, which
\* disables the buttons; they stay disabled until another question is
\* rendered; the score falls to 0 only with a new quiz.
ScoreStep ==
    /\ score' > score =>
           /\ score' = score + 1
           /\ Asking /\ Answered' /\ currentIndex' = currentIndex
    /\ score' < score => score' = 0 /\ currentLevel' # currentLevel
    /\ (Answered /\ ~Answered') =>
           currentIndex' # currentIndex \/ currentLevel' # currentLevel

\* C21: in every state 0 <= score <= questions answered so far <= questions
\* of the current quiz; a question is answered at most once, the buttons
\* being disabled from the first click until the next question is rendered.
C21_ScoreBounded == []ScoreBounded /\ [][ScoreStep]_vars

\* Three questions are answered, all of them right.
C21_Witness ==
    /\ Answered /\ currentIndex = 2 /\ score = 3
    /\ AnsweredSoFar = 3 /\ Len(quizQuestions) >= 3

-----------------------------------------------------------------------------
(* Changes of level *)

ProjectQuiz == variant \in {"app", "ext"}

\* The questions are a quiz of the observations at the level: each correct
\* answer is a loaded observation with a label at the level, no label is
\* asked twice, and in src/app.js every label of the level is asked, up to
\* QUESTIONS_COUNT.
QuizOf(questions, obsList, level) ==
    /\ \A n \in 1..Len(questions) :
           /\ \E i \in 1..Len(obsList) : obsList[i] = questions[n].correct
           /\ LevelLabel(questions[n].correct, level) # NULL
           /\ \A m \in 1..Len(questions) :
                  m # n => LevelLabel(questions[m].correct, level)
                               # LevelLabel(questions[n].correct, level)
    /\ variant = "app" =>
           Len(questions) = Min(QUESTIONS_COUNT, Cardinality(LabelSet(obsList, level)))

\* A change of level with observations loaded.
LevelChangeRebuilds ==
    (ProjectQuiz /\ currentLevel' # currentLevel /\ observations # <<>>)
      => /\ \A level \in Levels :
                (LevelChange(level) \/ extLevelChange(level)) => currentLevel' = level
         /\ QuizOf(quizQuestions', observations, currentLevel')
         /\ builtLevel' = currentLevel'
         /\ currentIndex' = 0 /\ score' = 0
         /\ observations' = observations

\* The question on display is of the current level.
DisplayedForCurrentLevel ==
    (ProjectQuiz /\ (Asking \/ Answered)) =>
        /\ builtLevel = currentLevel
        /\ QuizOf(quizQuestions, observations, currentLevel)
        /\ buttons = [j \in 1..Len(Question(currentIndex + 1).options) |->
                          LevelLabel(Question(currentIndex + 1).options[j], currentLevel)]
        /\ correctLabel = LevelLabel(Question(currentIndex + 1).correct, currentLevel)

\* C22: a change of level after the observations were loaded sets
\* currentLevel to the level selected, replaces the questions by a quiz built
\* for that level, resets currentIndex and score to 0 and leaves the
\* observations as they are; whenever a question is displayed, the questions
\* were built for the current level.
C22_LevelChangeRebuilds == []DisplayedForCurrentLevel /\ [][LevelChangeRebuilds]_vars

\* The genus quiz of a project whose genera are fewer than its species, just
\* started with the enrichment done.
C22_Witness ==
    /\ ProjectQuiz /\ pc = "done" /\ FirstQuestionShown /\ score = 0
    /\ currentLevel = "genus" /\ builtLevel = "genus"
    /\ Cardinality(LabelSet(observations, "genus"))
           < Cardinality(LabelSet(observations, "species"))

-----------------------------------------------------------------------------
(* Changes of level during the load *)

\* The answer keys of the vocabulary of a level.
KeysAt(level) ==
    LET vocab == CASE level = "species" -> vocabByGroup
                   [] level = "genus" -> genusVocabByGroup
                   [] level = "family" -> familyVocabByGroup
    IN  UNION {{VocabKey(vocab[n].list[i], level) : i \in 1..Len(vocab[n].list)} :
                   n \in 1..Len(vocab)}

\* The questions were built for the level.
BuiltFor(questions, obsList, level) ==
    IF variant = "vocab"
    THEN \A n \in 1..Len(questions) : questions[n].correct.answerKey \in KeysAt(level)
    ELSE QuizOf(questions, obsList, level)

\* A change of level while a request of the load is awaited changes the
\* level only, and the load goes on.
LevelChangeInFlight ==
    (Awaiting /\ currentLevel' # currentLevel)
      => /\ quizQuestions' = quizQuestions
         /\ currentIndex' = currentIndex /\ score' = score
         /\ observations' = observations
         /\ pc' = pc /\ pending' = pending
         /\ containerHidden' /\ nextHidden'

\* The step that ends the load builds the quiz for the level then selected.
LoadEndsAtCurrentLevel ==
    (Awaiting /\ ~Awaiting' /\ built')
      => /\ currentLevel' = currentLevel
         /\ builtLevel' = currentLevel
         /\ BuiltFor(quizQuestions, observations, currentLevel)'
         /\ quizQuestions' # <<>> => FirstQuestionShown'

DisplayedQuizOfCurrentLevel ==
    (Asking \/ Answered) =>
        /\ builtLevel = currentLevel
        /\ BuiltFor(quizQuestions, observations, currentLevel)

-----------------------------------------------------------------------------
(* A quiz played to its end *)

\* The label the user chooses at question n.
ChosenLabel(n) ==
    LevelLabel(Question(n).options[ClickPlace(n, Len(Question(n).options))], builtLevel)

\* The number of the first k questions at which the label chosen is the
\* correct one.
RightChoices(k) ==
    Cardinality({n \in 1..k : ChosenLabel(n) = LevelLabel(Question(n).correct, builtLevel)})

QuizStarted == Loaded /\ Len(quizQuestions) >= 1

\* The score is the number of right choices so far, and the finished state is
\* at index N, shows neither a question nor Next, and reports the score.
PlayedByTheBook ==
    QuizStarted =>
        /\ currentIndex <= Len(quizQuestions)
        /\ score = RightChoices(AnsweredSoFar)
        /\ Finished <=> currentIndex = Len(quizQuestions)
        /\ Finished =>
               /\ AnsweredSoFar = Len(quizQuestions)
               /\ containerHidden /\ nextHidden
               /\ statusEl = <<"finished", RightChoices(Len(quizQuestions)),
                               Len(quizQuestions)>>

\* An answer and a click on Next for each question, one after the other.
OneAnswerOneNext ==
    /\ UserAnswers => Asking /\ Answered' /\ currentIndex' = currentIndex
    /\ UserNext => Answered /\ currentIndex' = currentIndex + 1
    /\ (QuizStarted /\ currentIndex' # currentIndex) => UserNext

\* C24: a quiz of N >= 1 questions whose level is not changed is finished
\* after exactly N answers and N clicks on Next by a user who keeps answering
\* and pressing Next; the finished state offers no question and no Next
\* button, and the final score reported is the number of questions at which
\* the label chosen was the correct label.
C24_PlayedToTheEnd ==
    /\ []PlayedByTheBook
    /\ [][OneAnswerOneNext]_vars
    /\ (QuizStarted ~> Finished)

\* A quiz of four questions is finished with two right answers.
C24_Witness ==
    /\ QuizStarted /\ Finished /\ Len(quizQuestions) = 4
    /\ score = 2 /\ statusEl = <<"finished", 2, 4>>

-----------------------------------------------------------------------------
(* The loop of the vocabulary builders *)

\* The runs of the builder of the level on the loaded vocabulary, one for
\* every sequence of random draws.
BuilderRuns == {VocabRun(LevelVocab, builtLevel, tape) : tape \in Tapes}

\* No group of the level's vocabulary has more than 3 entries.
NoLargeGroup == \A n \in 1..Len(LevelVocab) : Len(LevelVocab[n].list) <= 3

\* The vocabulary is loaded and no builder has run yet.
VocabReady == variant = "vocab" /\ ~built

\* C25: each vocabulary builder returns on every vocabulary content and every
\* sequence of random choices: its loop makes at most MAX_ATTEMPTS
\* iterations, it returns at most QUESTIONS_COUNT questions, one per
\* iteration at most, and when no group has more than 3 entries it returns
\* the empty list without an iteration.  Stated of every run the builder of
\* the level can make on the loaded vocabulary, and of the questions the run
\* made has left in the quiz.
C25_BuildersTerminate ==
    /\ VocabReady =>
           \A run \in BuilderRuns :
               /\ run.returned
               /\ run.attempts <= MAX_ATTEMPTS
               /\ Len(run.questions) <= QUESTIONS_COUNT
               /\ Len(run.questions) <= run.attempts
               /\ NoLargeGroup => run.attempts = 0 /\ run.questions = <<>>
    /\ VocabBuilt =>
           /\ Len(quizQuestions) <= QUESTIONS_COUNT
           /\ NoLargeGroup => quizQuestions = <<>>

\* The insects file lists one taxon four times and nothing else: the species
\* builder has entered its loop, found no 3 other taxa in any of its
\* MAX_ATTEMPTS iterations and returned no question.
C25_Witness ==
    /\ VocabBuilt /\ builtLevel = "species"
    /\ Len(GroupList("insects")) = 4 /\ Cardinality(GroupKeys("insects")) = 1
    /\ quizQuestions = <<>>
    /\ \A run \in BuilderRuns : run.attempts = MAX_ATTEMPTS

\* Some iterations have pushed a question and the others have failed: the
\* loop ended at MAX_ATTEMPTS with fewer than QUESTIONS_COUNT questions.
C25_MixedRun ==
    /\ VocabBuilt /\ builtLevel = "species" /\ quizQuestions # <<>>
    /\ Len(quizQuestions) < QUESTIONS_COUNT
    /\ \E run \in BuilderRuns :
           quizQuestions = run.questions /\ run.attempts = MAX_ATTEMPTS

\* The builder has returned without entering its loop.
C25_NoLoop ==
    /\ VocabBuilt /\ NoLargeGroup /\ quizQuestions = <<>>
    /\ \E n \in 1..Len(LevelVocab) : Len(LevelVocab[n].list) = 3

=============================================================================
